---------------------------- MODULE Spec2Model ----------------------------
(***************************************************************************)
(* A model of the layout-recognition and record-extraction engine of the   *)
(* steel price tool (src/data_processor) and of the wizard page that       *)
(* drives it (src/app.py).                                                 *)
(*                                                                         *)
(* Text.  A Python str is modelled as a sequence of characters, each       *)
(* character being a one-element TLA+ string.  ASCII characters stand for  *)
(* themselves ("3", ".", "*", " ").  The module is kept ASCII-only, so     *)
(* every CJK character of the source is written as its pinyin syllable:    *)
(*   gui ge     = U+89C4 U+683C  (spec label)                              *)
(*   hou du     = U+539A U+5EA6  (thickness label)                         *)
(*   jia ge     = U+4EF7 U+683C  (price label)                             *)
(*   fang guan  = U+65B9 U+7BA1  (square tube)                             *)
(*   ju guan    = U+77E9 U+7BA1  (rect tube)                               *)
(*   zheng da re dux = U+6B63 U+5927 U+70ED U+9540 (Zhengda hot-dip)       *)
(*   bi hou     = U+58C1 U+539A  (wall thickness)                          *)
(*   guo bang   = U+8FC7 U+78C5  (weighed)                                 *)
(*   jian chi   = U+68C0 U+5C3A  (measured / theoretical)                  *)
(*   mian yi    = U+9762 U+8BAE  ("negotiable", a non-numeric price)       *)
(*   ban cai    = U+677F U+6750  (plate, a product type)                   *)
(*   guan cai   = U+7BA1 U+6750  (pipe, a product type)                    *)
(*   caix tu juan = U+5F69 U+6D82 U+5377 (colour-coated coil)              *)
(*   chang du   = U+957F U+5EA6  (length label), mi = U+7C73 (metre)       *)
(*   jianx      = U+4EF6 (unit "piece"), kuai = U+5757 (unit "block")      *)
(*   hei        = U+9ED1 (black), dux xin guan = U+9540 U+950C U+7BA1      *)
(* A syllable that stands for two characters carries an x on the second    *)
(* (dux, jianx, caix, ...); each use names its code points in a comment.   *)
(* "NL" is the line feed, "WD" the full-width hyphen U+FF0D, "WC" the      *)
(* full-width comma U+FF0C and "WK" the full-width colon U+FF1A.           *)
(* All substring tests, splits and strips below work on these sequences    *)
(* exactly as the Python operators work on the characters.                 *)
(***************************************************************************)
EXTENDS Integers, Sequences, FiniteSets, TLC

VARIABLES
    ftIn,       \* format_thickness: the token first passed in
    ftHist,     \* format_thickness: the successive results of re-applying it
    grid,       \* the grid (DataFrame) handed to the call under way
    pc,         \* where the call under way stands
    si,         \* extract_price_data: index of the registry entry tried next
    cls,        \* the strategy class whose match/extract is called directly
    matched,    \* what the last match test returned
    invoked,    \* the strategies whose extract has been called, in call order
    ret,        \* the outcome of the call: a return value or an exception
    tcSelf,     \* what each ThreeColumnStrategy object holds between calls
    todo,       \* the grids still to be passed to the registry's strategy object
    outs,       \* the outcomes of the calls completed so far, in call order
    files,      \* process_multiple_files: source_files
    fi,         \* process_multiple_files: position of the loop in source_files
    results,    \* process_multiple_files: results, file name -> rows of its table
    file_infos, \* process_multiple_files: file_infos, file name -> metadata
    manufacturer, \* process_multiple_files: the manufacturer argument
    callArg,    \* the argument(s) of the single function call under way
    callRes,    \* what that call returned, or the exception that left it
    session_state, \* app.py: st.session_state (results, file_infos, step)
    clicked     \* app.py: the button whose handler ran in the last script run

vars == <<ftIn, ftHist, grid, pc, si, cls, matched, invoked, ret, tcSelf,
          todo, outs, files, fi, results, file_infos, manufacturer, callArg, callRes,
          session_state, clicked>>

fmtVars == <<ftIn, ftHist>>

callVars == <<grid, pc, si, cls, matched, invoked, ret, tcSelf>>

batchVars == <<files, fi, results, file_infos, manufacturer>>

pureVars == <<callArg, callRes>>

appVars == <<session_state, clicked>>

----------------------------------------------------------------------------
(* Bounds of the model *)

\* longest thickness token enumerated for format_thickness
MaxTokLen == 6
\* how many times format_thickness is re-applied to its own output
MaxApply == 2
\* most data rows under the header row of an enumerated grid
MaxDataRows == 2
\* most blank rows above the header row of an enumerated grid
MaxPad == 6
\* most files in the list handed to process_multiple_files
MaxFiles == 3
\* longest length text enumerated, in characters
MaxLengthLen == 4
\* longest spec cell text enumerated, in characters
MaxCellLen == 4
\* most data rows of a workbook handed to process_file
MaxFacadeRows == 2

\* the most data rows of a grid whose records create_template_dataframe is given
MaxTemplateRows == 2

\* the most rows with or without a note keyword in a grid scanned for notes
MaxNoteRows == 2

\* the most data rows of a plate grid YihengPlateStrategy is called on
MaxPlateRows == 3

----------------------------------------------------------------------------
(* Python str primitives *)

Digits == {"0", "1", "2", "3", "4", "5", "6", "7", "8", "9"}

\* str.isspace() characters that occur in the modelled texts
Whitespace == {" ", "NL"}

\* the characters re.split(r'[-...]') of format_thickness splits on
DashChars == {"-", "WD"}

\* Python: kw in s
Contains(s, kw) ==
    \E i \in 1..(Len(s) - Len(kw) + 1) : \A j \in 1..Len(kw) : s[i + j - 1] = kw[j]

RECURSIVE LStrip(_)
LStrip(s) ==
    IF s # <<>> /\ Head(s) \in Whitespace THEN LStrip(Tail(s)) ELSE s

RECURSIVE RStrip(_)
RStrip(s) ==
    IF s # <<>> /\ s[Len(s)] \in Whitespace
    THEN RStrip(SubSeq(s, 1, Len(s) - 1))
    ELSE s

\* Python: s.strip()
Strip(s) == RStrip(LStrip(s))

\* re.split on a one-character class: the pieces between the separators,
\* empty pieces kept
RECURSIVE SplitChars(_, _)
SplitChars(s, seps) ==
    IF \A i \in 1..Len(s) : s[i] \notin seps
    THEN <<s>>
    ELSE LET i == CHOOSE j \in 1..Len(s) :
                      s[j] \in seps /\ \A m \in 1..(j - 1) : s[m] \notin seps
         IN  <<SubSeq(s, 1, i - 1)>> \o SplitChars(SubSeq(s, i + 1, Len(s)), seps)

\* Python: sep.join(parts)
RECURSIVE Join(_, _)
Join(parts, sep) ==
    IF parts = <<>> THEN <<>>
    ELSE IF Len(parts) = 1 THEN parts[1]
    ELSE parts[1] \o sep \o Join(Tail(parts), sep)

RECURSIVE Zeros(_)
Zeros(n) == IF n <= 0 THEN <<>> ELSE <<"0">> \o Zeros(n - 1)

RECURSIVE StripLeadingZeros(_)
StripLeadingZeros(d) ==
    IF d # <<>> /\ Head(d) = "0" THEN StripLeadingZeros(Tail(d)) ELSE d

RECURSIVE TrailingZeros(_)
TrailingZeros(d) ==
    IF d # <<>> /\ d[Len(d)] = "0"
    THEN 1 + TrailingZeros(SubSeq(d, 1, Len(d) - 1))
    ELSE 0

DigitVal(c) ==
    CASE c = "0" -> 0 [] c = "1" -> 1 [] c = "2" -> 2 [] c = "3" -> 3
      [] c = "4" -> 4 [] c = "5" -> 5 [] c = "6" -> 6 [] c = "7" -> 7
      [] c = "8" -> 8 [] c = "9" -> 9

DigitChar(n) ==
    CASE n = 0 -> "0" [] n = 1 -> "1" [] n = 2 -> "2" [] n = 3 -> "3"
      [] n = 4 -> "4" [] n = 5 -> "5" [] n = 6 -> "6" [] n = 7 -> "7"
      [] n = 8 -> "8" [] n = 9 -> "9"

RECURSIVE DigitsToNat(_)
DigitsToNat(d) ==
    IF d = <<>> THEN 0
    ELSE 10 * DigitsToNat(SubSeq(d, 1, Len(d) - 1)) + DigitVal(d[Len(d)])

RECURSIVE NatToDigits(_)
NatToDigits(n) ==
    IF n < 10 THEN <<DigitChar(n)>>
    ELSE NatToDigits(n \div 10) \o <<DigitChar(n % 10)>>

AllDigits(d) == \A i \in 1..Len(d) : d[i] \in Digits

----------------------------------------------------------------------------
(* Python float(str) and str(float)                                        *)
(*                                                                         *)
(* A parsed float is a record                                              *)
(*    [ok, kind, neg, dig, k]                                              *)
(* ok = FALSE is ValueError.  kind is "fin", "nan" or "inf".  A finite     *)
(* value is (-1)^neg * dig * 10^(-k), where dig is a digit string with no  *)
(* leading zero and, when k > 0, no trailing zero; zero is dig = <<>>,     *)
(* k = 0.  The tokens of the model have at most 15 significant digits and  *)
(* small exponents, where the binary float and its shortest repr agree     *)
(* with this decimal value.                                                *)

FloatError == [ok |-> FALSE, kind |-> "err", neg |-> FALSE, dig |-> <<>>, k |-> 0]

FloatNan == [ok |-> TRUE, kind |-> "nan", neg |-> FALSE, dig |-> <<>>, k |-> 0]

FloatInf(neg) == [ok |-> TRUE, kind |-> "inf", neg |-> neg, dig |-> <<>>, k |-> 0]

\* the value all * 10^(-scale), normalised
FloatFin(neg, all, scale) ==
    LET d  == StripLeadingZeros(all)
        tz == IF scale > 0
              THEN (IF TrailingZeros(d) < scale THEN TrailingZeros(d) ELSE scale)
              ELSE 0
        d2 == SubSeq(d, 1, Len(d) - tz)
        k2 == scale - tz
    IN  IF d = <<>>
        THEN [ok |-> TRUE, kind |-> "fin", neg |-> neg, dig |-> <<>>, k |-> 0]
        ELSE IF k2 <= 0
        THEN [ok |-> TRUE, kind |-> "fin", neg |-> neg,
              dig |-> d2 \o Zeros(0 - k2), k |-> 0]
        ELSE [ok |-> TRUE, kind |-> "fin", neg |-> neg, dig |-> d2, k |-> k2]

\* the unsigned decimal literal  digits [. digits] [e [+-] digits]
ParseDecimal(neg, s) ==
    LET epos  == IF \E i \in 1..Len(s) : s[i] \in {"e", "E"}
                 THEN CHOOSE i \in 1..Len(s) :
                          s[i] \in {"e", "E"} /\ \A m \in 1..(i - 1) : s[m] \notin {"e", "E"}
                 ELSE 0
        mant  == IF epos = 0 THEN s ELSE SubSeq(s, 1, epos - 1)
        expo  == IF epos = 0 THEN <<>> ELSE SubSeq(s, epos + 1, Len(s))
        eneg  == expo # <<>> /\ Head(expo) = "-"
        edig  == IF expo # <<>> /\ Head(expo) \in {"+", "-"} THEN Tail(expo) ELSE expo
        ppos  == IF \E i \in 1..Len(mant) : mant[i] = "."
                 THEN CHOOSE i \in 1..Len(mant) :
                          mant[i] = "." /\ \A m \in 1..(i - 1) : mant[m] # "."
                 ELSE 0
        ipart == IF ppos = 0 THEN mant ELSE SubSeq(mant, 1, ppos - 1)
        fpart == IF ppos = 0 THEN <<>> ELSE SubSeq(mant, ppos + 1, Len(mant))
        e     == IF eneg THEN 0 - DigitsToNat(edig) ELSE DigitsToNat(edig)
    IN  IF /\ AllDigits(ipart) /\ AllDigits(fpart)
           /\ Len(ipart) + Len(fpart) >= 1
           /\ (epos # 0 => (edig # <<>> /\ AllDigits(edig)))
        THEN FloatFin(neg, ipart \o fpart, Len(fpart) - e)
        ELSE FloatError

\* Python: float(s) for a str s
ParseFloat(s0) ==
    LET s    == Strip(s0)
        sgn  == s # <<>> /\ Head(s) \in {"+", "-"}
        neg  == s # <<>> /\ Head(s) = "-"
        body == IF sgn THEN Tail(s) ELSE s
    IN  IF body = <<"n", "a", "n">> THEN FloatNan
        ELSE IF body \in {<<"i", "n", "f">>, <<"i", "n", "f", "i", "n", "i", "t", "y">>}
        THEN FloatInf(neg)
        ELSE ParseDecimal(neg, body)

\* Python: val.is_integer()
IsInteger(v) == v.kind = "fin" /\ v.k = 0

\* Python: str(int(val)) for an integral float
IntStr(v) ==
    IF v.dig = <<>> THEN <<"0">>
    ELSE (IF v.neg THEN <<"-">> ELSE <<>>) \o v.dig

\* Python: str(val), the shortest repr of a float: fixed notation when the
\* decimal exponent is in [-4, 16), scientific notation otherwise
FloatStr(v) ==
    LET sign == IF v.neg THEN <<"-">> ELSE <<>>
        L    == Len(v.dig)
        x10  == L - 1 - v.k
        ex   == NatToDigits(0 - x10)
    IN  IF v.kind = "nan" THEN <<"n", "a", "n">>
        ELSE IF v.kind = "inf" THEN sign \o <<"i", "n", "f">>
        ELSE IF v.k = 0
        THEN (IF L > 16
              THEN sign \o <<v.dig[1]>>
                        \o (LET m == SubSeq(v.dig, 2, L - TrailingZeros(v.dig))
                            IN  IF m = <<>> THEN <<>> ELSE <<".">> \o m)
                        \o <<"e", "+">> \o NatToDigits(L - 1)
              ELSE sign \o (IF v.dig = <<>> THEN <<"0">> ELSE v.dig) \o <<".", "0">>)
        ELSE IF x10 < 0 - 4
        THEN sign \o <<v.dig[1]>>
                  \o (IF L > 1 THEN <<".">> \o SubSeq(v.dig, 2, L) ELSE <<>>)
                  \o <<"e", "-">> \o (IF Len(ex) < 2 THEN <<"0">> \o ex ELSE ex)
        ELSE IF L > v.k
        THEN sign \o SubSeq(v.dig, 1, L - v.k) \o <<".">> \o SubSeq(v.dig, L - v.k + 1, L)
        ELSE sign \o <<"0", ".">> \o Zeros(v.k - L) \o v.dig

\* a < b on Python floats; no NaN is below or above anything.  The finite
\* values compared have few digits, so the scaled integers stay small.
FloatLess(a, b) ==
    LET scaled(v, k) == (IF v.neg THEN 0 - 1 ELSE 1) * DigitsToNat(v.dig \o Zeros(k - v.k))
        k            == IF a.k >= b.k THEN a.k ELSE b.k
    IN  CASE a.kind = "nan" \/ b.kind = "nan" -> FALSE
          [] a.kind = "inf" -> a.neg /\ ~(b.kind = "inf" /\ b.neg)
          [] b.kind = "inf" -> ~b.neg
          [] OTHER -> scaled(a, k) < scaled(b, k)

----------------------------------------------------------------------------
(* utils.format_thickness *)

\* the loop body of format_thickness on one part
FormatPart(part0) ==
    LET part == Strip(part0)
        val  == ParseFloat(part)
    IN  IF ~val.ok THEN part
        ELSE IF IsInteger(val) THEN IntStr(val) \o <<".", "0">>
        ELSE FloatStr(val)

format_thickness(thickness_str) ==
    IF thickness_str = <<>> THEN <<>>
    ELSE LET parts == SplitChars(thickness_str, DashChars)
         IN  Join([i \in 1..Len(parts) |-> FormatPart(parts[i])], <<"-">>)

----------------------------------------------------------------------------
(* utils.normalize_length *)

\* a call's outcome: exc = "" is a normal return of val, anything else names
\* the exception that left the call
Ok(val) == [exc |-> "", val |-> val]

Fail(exc) == [exc |-> exc, val |-> <<>>]

\* Python: s.lower(), for the letters that occur in the modelled texts
Lower(s) == [i \in 1..Len(s) |-> IF s[i] = "M" THEN "m" ELSE s[i]]

\* the longest prefix of s made of characters of the set cs
RECURSIVE TakeWhile(_, _)
TakeWhile(s, cs) ==
    IF s # <<>> /\ Head(s) \in cs THEN <<Head(s)>> \o TakeWhile(Tail(s), cs) ELSE <<>>

\* s without its first n characters
Drop(s, n) == SubSeq(s, n + 1, Len(s))

\* s.startswith(prefix)
StartsWith(s, prefix) == Len(s) >= Len(prefix) /\ SubSeq(s, 1, Len(prefix)) = prefix

\* the first alternative, in the order written, that s starts with; <<>> if none
RECURSIVE FirstAlternative(_, _)
FirstAlternative(s, alts) ==
    IF alts = <<>> THEN <<>>
    ELSE IF StartsWith(s, Head(alts)) THEN Head(alts)
    ELSE FirstAlternative(s, Tail(alts))

\* the units: "mi" is U+7C73 (metre), "hao" "mi" is U+6BEB U+7C73 (millimetre)
UnitMetre == <<"mi">>
UnitMillimetre == <<"hao", "mi">>

\* the alternation (U+7C73|m|mm|U+6BEB U+7C73) of normalize_length, in the
\* order the pattern writes it
NormalizeUnits == <<UnitMetre, <<"m">>, <<"m", "m">>, UnitMillimetre>>

\* Python: int(val) of a finite float, as digits: truncation toward zero
IntTrunc(v) ==
    LET L == Len(v.dig)
        d == IF v.k >= L THEN <<>> ELSE SubSeq(v.dig, 1, L - v.k)
    IN  IF d = <<>> THEN <<"0">>
        ELSE (IF v.neg THEN <<"-">> ELSE <<>>) \o d

\* the decimal product val * 1000
Times1000(v) == FloatFin(v.neg, v.dig, v.k - 3)

\* The values of the enumerated length texts whose binary product val * 1000
\* falls just below the decimal product, which is an integer: 2.01 * 1000 is
\* 2009.9999999999998 in double arithmetic.
ProductBelow ==
    { [dig |-> <<"2", "0", "1">>, k |-> 2],
      [dig |-> <<"1", "6", "0", "6">>, k |-> 2],
      [dig |-> <<"1", "6", "2", "2">>, k |-> 2],
      [dig |-> <<"1", "0", "0", "1">>, k |-> 3],
      [dig |-> <<"1", "0", "1", "1">>, k |-> 3],
      [dig |-> <<"1", "0", "2", "1">>, k |-> 3],
      [dig |-> <<"2", "0", "0", "2">>, k |-> 3],
      [dig |-> <<"2", "0", "0", "6">>, k |-> 3],
      [dig |-> <<"2", "0", "2", "2">>, k |-> 3],
      [dig |-> <<"2", "0", "2", "6">>, k |-> 3] }

\* Python: str(int(val * 1000)) of a finite float
IntTimes1000(v) ==
    IF [dig |-> v.dig, k |-> v.k] \in ProductBelow
    THEN (IF v.neg THEN <<"-">> ELSE <<>>)
             \o NatToDigits(DigitsToNat(Times1000(v).dig) - 1)
    ELSE IntTrunc(Times1000(v))

\* Python: val < 20
LessThan20(v) ==
    \/ v.kind = "inf" /\ v.neg
    \/ /\ v.kind = "fin"
       /\ \/ v.neg
          \/ LET L == Len(v.dig)
                 d == IF v.k >= L THEN <<>> ELSE SubSeq(v.dig, 1, L - v.k)
             IN  Len(d) <= 1 \/ (Len(d) = 2 /\ DigitsToNat(d) < 20)

\* normalize_length after a successful re.match: float(match.group(1)) is
\* outside any try
NormalizeMatched(number, unit) ==
    LET value == ParseFloat(number)
    IN  IF ~value.ok THEN Fail("ValueError")
        ELSE IF unit \in {UnitMetre, <<"m">>} THEN Ok(IntTimes1000(value))
        ELSE Ok(IntTrunc(value))

\* normalize_length when re.match found nothing: the try around float()
NormalizeBare(length_str) ==
    LET val == ParseFloat(length_str)
    IN  IF ~val.ok \/ val.kind # "fin" THEN Ok(length_str)
        ELSE IF LessThan20(val) THEN Ok(IntTimes1000(val))
        ELSE Ok(IntTrunc(val))

normalize_length(length_str) ==
    LET low    == Lower(length_str)
        number == TakeWhile(low, Digits \cup {"."})
        rest   == LStrip(Drop(low, Len(number)))
        unit   == FirstAlternative(rest, NormalizeUnits)
    IN  IF length_str = <<>> THEN Ok(<<>>)
        ELSE IF number # <<>> /\ unit # <<>> THEN NormalizeMatched(number, unit)
        ELSE NormalizeBare(length_str)

----------------------------------------------------------------------------
(* The Grid (a pandas DataFrame read with header=None)                     *)
(*                                                                         *)
(* A cell is [t, s]: t is "nan" (empty cell), "num" (int or float cell) or *)
(* "str" (text cell), and s is what Python's str(cell) gives.  A grid is a *)
(* sequence of rows of equal length.  Row and column indices are 0-based   *)
(* as in the source: row i of the DataFrame is df[i + 1].                  *)

NaN == [t |-> "nan", s |-> <<"n", "a", "n">>]

Num(s) == [t |-> "num", s |-> s]

Txt(s) == [t |-> "str", s |-> s]

\* pd.notna(cell) / pd.isna(cell)
notna(cell) == cell.t # "nan"

\* isinstance(cell, (int, float, np.integer, np.floating))
IsNumber(cell) == cell.t = "num"

\* len(df)
NRows(df) == Len(df)

\* len(df.columns)
NCols(df) == IF df = <<>> THEN 0 ELSE Len(df[1])

\* df.iloc[i]
Row(df, i) == df[i + 1]

\* row.iloc[c]
Cell(row, c) == row[c + 1]

\* df.iloc[i].astype(str).str.cat(sep=' ')
RowStr(row) == Join([c \in 1..Len(row) |-> row[c].s], <<" ">>)

\* row.dropna().empty
RowIsEmpty(row) == \A c \in 1..Len(row) : ~notna(row[c])

\* range(a, b, step) as the sequence of its values
RECURSIVE Range(_, _, _)
Range(a, b, step) == IF a >= b THEN <<>> ELSE <<a>> \o Range(a + step, b, step)

\* dict.get(key, default) on a dict kept as a function
Get(dict, key, default) == IF key \in DOMAIN dict THEN dict[key] ELSE default

\* dict[key] = value
Put(dict, key, value) ==
    [x \in DOMAIN dict \cup {key} |-> IF x = key THEN value ELSE dict[x]]

\* {} : the dict with no key
EmptyDict == [x \in {} |-> <<>>]

\* the header signatures the match tests look for
KwSpec == <<"gui", "ge">>
KwThickness == <<"hou", "du">>
KwPrice == <<"jia", "ge">>
KwSquare == <<"fang", "guan">>
KwRect == <<"ju", "guan">>
KwZhengda == <<"zheng", "da", "re", "dux">>
KwWall == <<"bi", "hou">>
KwWeighed == <<"guo", "bang">>
KwMeasured == <<"jian", "chi">>

\* a call's outcome: exc = "" is a normal return of (records, column_headers),
\* anything else names the exception that left the call
Return(records, headers) == [exc |-> "", records |-> records, headers |-> headers]

Raise(exc) == [exc |-> exc, records |-> <<>>, headers |-> <<>>]

\* (is_match, header_row, data_start_row)
MatchResult(m, h, d) == [is_match |-> m, header_row |-> h, data_start_row |-> d]

\* for i in range(min(limit, len(df))): the first row whose text holds every
\* keyword of kws gives (True, i, i + 1); none gives (False, -1, -1)
FirstRowWith(df, limit, kws) ==
    LET n    == IF NRows(df) < limit THEN NRows(df) ELSE limit
        hits == { i \in 0..(n - 1) :
                     LET row_str == RowStr(Row(df, i))
                     IN  \A kw \in kws : Contains(row_str, kw) }
    IN  IF hits = {} THEN MatchResult(FALSE, 0 - 1, 0 - 1)
        ELSE LET i == CHOOSE j \in hits : \A m \in hits : j <= m
             IN  MatchResult(TRUE, i, i + 1)

\* ExtractionStrategy.get_column_headers: the stripped non-empty texts of the
\* header row; df.iloc[header_row] raises IndexError for a row the grid has not
RECURSIVE HeaderLabels(_, _)
HeaderLabels(row, c) ==
    IF c > Len(row) THEN <<>>
    ELSE (IF Strip(row[c].s) # <<>> THEN <<Strip(row[c].s)>> ELSE <<>>)
         \o HeaderLabels(row, c + 1)

get_column_headers(df, header_row) ==
    IF NCols(df) = 0 THEN Return(<<>>, <<>>)
    ELSE IF header_row < 0 - NRows(df) \/ header_row >= NRows(df) THEN Raise("IndexError")
    ELSE Return(<<>>, HeaderLabels(Row(df, header_row % NRows(df)), 1))

----------------------------------------------------------------------------
(* utils.parse_spec_cell *)

\* re.sub(r'\s*\*\s*', '*', content): the whitespace around every '*' goes
RECURSIVE StarTrimLeft(_)
StarTrimLeft(s) ==
    IF s = <<>> THEN <<>>
    ELSE IF Head(s) \in Whitespace
    THEN (LET rest == LStrip(s)
          IN  IF rest # <<>> /\ Head(rest) = "*" THEN StarTrimLeft(rest)
              ELSE <<Head(s)>> \o StarTrimLeft(Tail(s)))
    ELSE IF Head(s) = "*" THEN <<"*">> \o StarTrimLeft(LStrip(Tail(s)))
    ELSE <<Head(s)>> \o StarTrimLeft(Tail(s))

\* the separators of re.split(r'<br>|[\n,...\s]+'): "WC" is the full-width
\* comma U+FF0C; "<br>" is replaced by one separator first
SpecSeparators == {"NL", ",", "WC", " "}

RECURSIVE ReplaceBr(_)
ReplaceBr(s) ==
    IF s = <<>> THEN <<>>
    ELSE IF Len(s) >= 4 /\ SubSeq(s, 1, 4) = <<"<", "b", "r", ">">>
    THEN <<"NL">> \o ReplaceBr(SubSeq(s, 5, Len(s)))
    ELSE <<Head(s)>> \o ReplaceBr(Tail(s))

UniqueNonEmptyKeepAll(parts, seen) ==
    SelectSeq([i \in 1..Len(parts) |-> Strip(parts[i])], LAMBDA p : p # <<>>)

\* the filter of parse_spec_cell: strip, drop the empty and the already seen
RECURSIVE UniqueNonEmpty(_, _)
UniqueNonEmpty(parts, seen) ==
    IF parts = <<>> THEN <<>>
    ELSE LET p == Strip(Head(parts))
         IN  IF p # <<>> /\ p \notin seen
             THEN <<p>> \o UniqueNonEmpty(Tail(parts), seen \cup {p})
             ELSE UniqueNonEmpty(Tail(parts), seen)

parse_spec_cell(cell) ==
    IF ~notna(cell) THEN <<>>
    ELSE UniqueNonEmpty(SplitChars(ReplaceBr(StarTrimLeft(cell.s)), SpecSeparators), {})

----------------------------------------------------------------------------
(* The layout strategies (strategies.py)                                   *)
(*                                                                         *)
(* A raw record is a dict, modelled as a record with the keys the strategy *)
(* sets: spec, thickness, price, count stand for the keys U+89C4 U+683C,   *)
(* U+539A U+5EA6, U+4EF7 U+683C and U+652F U+6570 of the source.  price is *)
(* the repr of the Python number stored: a float parsed from a numeric     *)
(* cell ("5200.0") or the int 0 of the else branch ("0").                  *)

RawRecord(spec, thickness, price) ==
    [spec |-> spec, thickness |-> thickness, price |-> price]

RawRecordWithCount(spec, thickness, price, count) ==
    [spec |-> spec, thickness |-> thickness, price |-> price, count |-> count]

\* float(price) if isinstance(price, (int, float, np.integer, np.floating)) else 0
PriceOf(cell) ==
    IF IsNumber(cell) THEN FloatStr(ParseFloat(cell.s)) ELSE <<"0">>

\* bool(cell) of a cell that is not NaN: a zero number and '' are falsy
Truthy(cell) ==
    CASE cell.t = "num" -> ParseFloat(cell.s).dig # <<>> \/ ParseFloat(cell.s).kind # "fin"
      [] cell.t = "str" -> cell.s # <<>>
      [] OTHER -> TRUE

(* ZhengdaGalvanizedStrategy *)

ZhengdaGalvanizedMatch(df) == FirstRowWith(df, 20, {KwZhengda, KwSpec})

\* the body of the block loop; st = [last_specs, last_counts, records]
ZhengdaGalvanizedBlock(st, row, start_col) ==
    LET spec_col  == start_col
        price_col == start_col + 1
        count_col == start_col + 2
        spec_val  == IF notna(Cell(row, spec_col)) THEN Strip(Cell(row, spec_col).s) ELSE <<>>
        price     == Cell(row, price_col)
        count_val == Cell(row, count_col)
        counts2   == IF notna(count_val) /\ Strip(count_val.s) # <<>>
                     THEN Put(st.last_counts, start_col, count_val.s)
                     ELSE st.last_counts
        current_count == Get(counts2, start_col, <<>>)
        st2       == [st EXCEPT !.last_counts = counts2]
        parts     == SplitChars(spec_val, {"*"})
        emit(st3, full_spec, thickness) ==
            [st3 EXCEPT !.records =
                Append(@, RawRecordWithCount(full_spec, format_thickness(thickness),
                                             PriceOf(price), current_count))]
    IN  IF spec_val = <<>> \/ ~notna(price) \/ ~Truthy(price) THEN st2
        ELSE IF Contains(spec_val, <<"*">>)
        THEN emit([st2 EXCEPT !.last_specs = Put(@, spec_col, Strip(parts[1]))],
                  spec_val, Strip(parts[2]))
        ELSE IF Get(st2.last_specs, spec_col, <<>>) # <<>>
        THEN emit(st2, st2.last_specs[spec_col] \o <<"*">> \o spec_val, spec_val)
        ELSE st2

RECURSIVE ZhengdaGalvanizedRow(_, _, _)
ZhengdaGalvanizedRow(st, row, cols) ==
    IF cols = <<>> THEN st
    ELSE ZhengdaGalvanizedRow(ZhengdaGalvanizedBlock(st, row, Head(cols)), row, Tail(cols))

RECURSIVE ZhengdaGalvanizedRows(_, _, _)
ZhengdaGalvanizedRows(st, df, row_idx) ==
    IF row_idx >= NRows(df) THEN st
    ELSE LET row == Row(df, row_idx)
         IN  ZhengdaGalvanizedRows(
                 IF RowIsEmpty(row) THEN st
                 ELSE ZhengdaGalvanizedRow(st, row, Range(0, Len(row) - 2, 3)),
                 df, row_idx + 1)

ZhengdaGalvanizedExtract(df, header_row, data_start_row) ==
    LET hdr == get_column_headers(df, header_row)
        st0 == [last_specs |-> EmptyDict, last_counts |-> EmptyDict, records |-> <<>>]
    IN  IF hdr.exc # "" THEN hdr
        ELSE Return(ZhengdaGalvanizedRows(st0, df, data_start_row).records, hdr.headers)

(* FourColumnStrategy *)

FourColumnMatch(df) == FirstRowWith(df, 20, {KwSquare, KwRect, KwThickness, KwPrice})

\* a block of the dual-spec strategy whose two spec columns share one entry
\* of last_specs
FourColumnBlockOneKey(st, row, start_col) ==
    LET sq_specs   == parse_spec_cell(Cell(row, start_col))
        last1      == IF sq_specs # <<>> THEN Put(st.last_specs, start_col, sq_specs)
                      ELSE st.last_specs
        sq_use     == IF sq_specs # <<>> THEN sq_specs ELSE Get(last1, start_col, <<>>)
        rect_specs == parse_spec_cell(Cell(row, start_col + 1))
        last2      == IF rect_specs # <<>> THEN Put(last1, start_col, rect_specs) ELSE last1
        rect_use   == IF rect_specs # <<>> THEN rect_specs ELSE Get(last2, start_col, <<>>)
        specs_to_use == sq_use \o rect_use
        thickness  == Cell(row, start_col + 2)
        price      == Cell(row, start_col + 3)
    IN  [last_specs |-> last2,
         records |-> st.records \o
            (IF specs_to_use # <<>> /\ notna(thickness) /\ notna(price)
             THEN [i \in 1..Len(specs_to_use) |->
                      RawRecord(specs_to_use[i], format_thickness(thickness.s),
                                PriceOf(price))]
             ELSE <<>>)]

\* the body of the block loop; st = [last_specs, records]
FourColumnBlock(st, row, start_col) ==
    LET sq_col     == start_col
        rect_col   == start_col + 1
        thick_col  == start_col + 2
        price_col  == start_col + 3
        sq_specs   == parse_spec_cell(Cell(row, sq_col))
        last1      == IF sq_specs # <<>> THEN Put(st.last_specs, sq_col, sq_specs)
                      ELSE st.last_specs
        sq_use     == IF sq_specs # <<>> THEN sq_specs ELSE Get(last1, sq_col, <<>>)
        rect_specs == parse_spec_cell(Cell(row, rect_col))
        last2      == IF rect_specs # <<>> THEN Put(last1, rect_col, rect_specs) ELSE last1
        rect_use   == IF rect_specs # <<>> THEN rect_specs ELSE Get(last2, rect_col, <<>>)
        specs_to_use == sq_use \o rect_use
        thickness  == Cell(row, thick_col)
        price      == Cell(row, price_col)
    IN  [last_specs |-> last2,
         records |-> st.records \o
            (IF specs_to_use # <<>> /\ notna(thickness) /\ notna(price)
             THEN [i \in 1..Len(specs_to_use) |->
                      RawRecord(specs_to_use[i], format_thickness(thickness.s),
                                PriceOf(price))]
             ELSE <<>>)]

RECURSIVE FourColumnRow(_, _, _)
FourColumnRow(st, row, cols) ==
    IF cols = <<>> THEN st
    ELSE FourColumnRow(FourColumnBlock(st, row, Head(cols)), row, Tail(cols))

RECURSIVE FourColumnRows(_, _, _)
FourColumnRows(st, df, row_idx) ==
    IF row_idx >= NRows(df) THEN st
    ELSE LET row == Row(df, row_idx)
         IN  FourColumnRows(
                 IF RowIsEmpty(row) THEN st
                 ELSE FourColumnRow(st, row, Range(0, Len(row) - 3, 4)),
                 df, row_idx + 1)

FourColumnExtract(df, header_row, data_start_row) ==
    LET hdr == get_column_headers(df, header_row)
        st0 == [last_specs |-> EmptyDict, records |-> <<>>]
    IN  IF hdr.exc # "" THEN hdr
        ELSE Return(FourColumnRows(st0, df, data_start_row).records, hdr.headers)

(* ThreeColumnStrategy *)

\* three passes: the full header, then any spec label in the first 10 rows,
\* then the fixed rows 6/7
ThreeColumnMatch(df) ==
    LET full  == FirstRowWith(df, 20, {KwSpec, KwThickness, KwPrice})
        loose == FirstRowWith(df, 10, {KwSpec})
    IN  IF full.is_match THEN full
        ELSE IF loose.is_match THEN loose
        ELSE MatchResult(TRUE, 6, 7)

\* ThreeColumnBlock with last_specs kept under one key for all the anchors
ThreeColumnBlockOneKey(st, row, start_col) ==
    LET spec_col  == start_col
        thick_col == start_col + 1
        price_col == start_col + 2
        current_specs == parse_spec_cell(Cell(row, spec_col))
        last2     == IF current_specs # <<>> THEN Put(st.last_specs, 0, current_specs)
                     ELSE st.last_specs
        specs_to_use == IF current_specs # <<>> THEN current_specs
                        ELSE Get(last2, 0, <<>>)
        thickness == Cell(row, thick_col)
        price     == Cell(row, price_col)
    IN  [last_specs |-> last2,
         records |-> st.records \o
            (IF specs_to_use # <<>> /\ notna(thickness) /\ notna(price)
             THEN [i \in 1..Len(specs_to_use) |->
                      RawRecord(specs_to_use[i], format_thickness(thickness.s),
                                PriceOf(price))]
             ELSE <<>>)]

\* the body of the block loop; st = [last_specs, records]
ThreeColumnBlock(st, row, start_col) ==
    LET spec_col  == start_col
        thick_col == start_col + 1
        price_col == start_col + 2
        current_specs == parse_spec_cell(Cell(row, spec_col))
        last2     == IF current_specs # <<>> THEN Put(st.last_specs, spec_col, current_specs)
                     ELSE st.last_specs
        specs_to_use == IF current_specs # <<>> THEN current_specs
                        ELSE Get(last2, spec_col, <<>>)
        thickness == Cell(row, thick_col)
        price     == Cell(row, price_col)
    IN  [last_specs |-> last2,
         records |-> st.records \o
            (IF specs_to_use # <<>> /\ notna(thickness) /\ notna(price)
             THEN [i \in 1..Len(specs_to_use) |->
                      RawRecord(specs_to_use[i], format_thickness(thickness.s),
                                PriceOf(price))]
             ELSE <<>>)]

RECURSIVE ThreeColumnRow(_, _, _)
ThreeColumnRow(st, row, cols) ==
    IF cols = <<>> THEN st
    ELSE ThreeColumnRow(ThreeColumnBlock(st, row, Head(cols)), row, Tail(cols))

RECURSIVE ThreeColumnRows(_, _, _)
ThreeColumnRows(st, df, row_idx) ==
    IF row_idx >= NRows(df) THEN st
    ELSE LET row == Row(df, row_idx)
         IN  ThreeColumnRows(
                 IF RowIsEmpty(row) THEN st
                 ELSE ThreeColumnRow(st, row, Range(0, Len(row) - 2, 3)),
                 df, row_idx + 1)

\* ThreeColumnExtract with last_specs kept on the strategy object: a call
\* starts from what the call before left and leaves its own behind
ThreeColumnExtractKeptState(self, df, header_row, data_start_row) ==
    LET hdr == get_column_headers(df, header_row)
        st0 == [last_specs |-> self, records |-> <<>>]
        st  == ThreeColumnRows(st0, df, data_start_row)
    IN  IF hdr.exc # "" THEN [ret |-> hdr, self |-> self]
        ELSE [ret |-> Return(st.records, hdr.headers), self |-> st.last_specs]

\* extract on the strategy object self: [ret, self], the outcome and the object
\* after the call.  self is what the object holds between calls: the class
\* defines no attribute and last_specs = {} is a local of the call, so self is
\* neither read nor written.
ThreeColumnExtract(self, df, header_row, data_start_row) ==
    LET hdr == get_column_headers(df, header_row)
        st0 == [last_specs |-> EmptyDict, records |-> <<>>]
        st  == ThreeColumnRows(st0, df, data_start_row)
    IN  IF hdr.exc # "" THEN [ret |-> hdr, self |-> self]
        ELSE [ret |-> Return(st.records, hdr.headers), self |-> self]

(* HengwangPipeStrategy *)

HengwangPipeMatch(df) == FirstRowWith(df, 20, {KwWall, KwWeighed, KwMeasured})

\* The row loop reads last_specs (line 255 or 257), price_col (265) and
\* theo_price_col (266), none of which the function binds: the first data row
\* of the first block whose header holds the wall-thickness label raises
\* NameError at line 255 or 257, and lines 258-300 are never reached.
HengwangPipeExtract(df, header_row, data_start_row) ==
    LET hdr    == get_column_headers(df, header_row)
        blocks == Range(0, NCols(df) - 3, 4)
        live   == { i \in 1..Len(blocks) :
                       Contains(Strip(Cell(Row(df, header_row), blocks[i] + 1).s), KwWall) }
    IN  IF hdr.exc # "" THEN hdr
        ELSE IF live # {} /\ data_start_row < NRows(df) THEN Raise("NameError")
        ELSE Return(<<>>, hdr.headers)

----------------------------------------------------------------------------
(* FuShunDeStrategy *)

\* cun huo / gui ge xing haox / xiao shou bao jia = U+5B58 U+8D27 /
\* U+89C4 U+683C U+578B U+53F7 / U+9500 U+552E U+62A5 U+4EF7: the labels of
\* the inventory, spec and quoted-price columns
KwInventory == <<"cun", "huo">>
KwSpecModel == <<"gui", "ge", "xing", "haox">>
KwQuote == <<"xiao", "shou", "bao", "jia">>
\* baox de = U+5B9D U+5F97, a brand; san = U+6563; meng = U+9530
KwBaode == <<"baox", "de">>

FuShunDeMatch(df) == FirstRowWith(df, 20, {KwInventory, KwSpecModel, KwQuote})

\* the characters outside [U+4E00-U+9FA5]: ASCII (the quotes, the backslash
\* and the backtick occur in no text of the model), the line feed, and the
\* full-width hyphen, comma and colon; every other character of the model is a CJK
\* ideograph written as its syllable
NonHanzi ==
    {"NL", "WD", "WC", "WK", " ", "!", "#", "$", "%", "&", "(", ")", "*", "+", ",",
     "-", ".", "/", ":", ";", "<", "=", ">", "?", "@", "[", "]", "^", "_",
     "{", "|", "}", "~"}
    \cup Digits
    \cup {"a", "b", "c", "d", "e", "f", "g", "h", "i", "j", "k", "l", "m",
          "n", "o", "p", "q", "r", "s", "t", "u", "v", "w", "x", "y", "z"}
    \cup {"A", "B", "C", "D", "E", "F", "G", "H", "I", "J", "K", "L", "M",
          "N", "O", "P", "Q", "R", "S", "T", "U", "V", "W", "X", "Y", "Z"}

\* re.findall(r'[U+4E00-U+9FA5]+', s)
RECURSIVE HanziRuns(_)
HanziRuns(s) ==
    IF s = <<>> THEN <<>>
    ELSE IF Head(s) \in NonHanzi THEN HanziRuns(Tail(s))
    ELSE LET run == TakeWhile(s, {s[i] : i \in 1..Len(s)} \ NonHanzi)
         IN  <<run>> \o HanziRuns(Drop(s, Len(run)))

\* s.replace(old, new) for a non-empty old
RECURSIVE ReplaceAll(_, _, _)
ReplaceAll(s, old, new) ==
    IF s = <<>> THEN <<>>
    ELSE IF StartsWith(s, old) THEN new \o ReplaceAll(Drop(s, Len(old)), old, new)
    ELSE <<Head(s)>> \o ReplaceAll(Tail(s), old, new)

\* the last index idx of headers whose label passes the if / elif chain of
\* the column scan at position k (1 inventory, 2 spec, 3 price); -1 if none
FuShunDeColumn(headers, k) ==
    LET kws  == <<KwInventory, KwSpecModel, KwQuote>>
        hits == { idx \in 0..(Len(headers) - 1) :
                     /\ Contains(headers[idx + 1].s, kws[k])
                     /\ \A j \in 1..(k - 1) : ~Contains(headers[idx + 1].s, kws[j]) }
    IN  IF hits = {} THEN 0 - 1 ELSE CHOOSE i \in hits : \A j \in hits : j <= i

\* the loop over chinese_chars: every run without meng becomes the location
\* and is removed from the spec; [spec, location]
RECURSIVE FuShunDeLocations(_, _, _)
FuShunDeLocations(runs, clean_spec, location) ==
    IF runs = <<>> THEN [spec |-> Strip(clean_spec), location |-> location]
    ELSE IF Contains(Head(runs), <<"meng">>)
    THEN FuShunDeLocations(Tail(runs), clean_spec, location)
    ELSE FuShunDeLocations(Tail(runs), ReplaceAll(clean_spec, Head(runs), <<>>), Head(runs))

\* p_type: the first keyword group with a keyword in the product name
FuShunDeType(name) ==
    LET any(kws) == \E kw \in kws : Contains(name, kw)
    IN  IF any({<<"cao", "gang">>, <<"jiao", "gang">>, <<"gong", "zi", "gang">>,
                <<"H", "xing", "gang">>, <<"xing", "gang">>})
        THEN <<"xing", "cai">>
        ELSE IF any({<<"ban">>, <<"juan">>}) THEN <<"ban", "cai">>
        ELSE IF any({<<"fang", "guan">>, <<"ju", "guan">>}) THEN <<"fang", "ju", "guan">>
        ELSE IF any({<<"guan">>}) THEN <<"guan", "cai">>
        ELSE IF any({<<"yuan", "gang">>, <<"luo", "wen">>}) THEN <<"bangx", "cai">>
        ELSE <<>>

\* thickness_val: the part after the last "*" if it matches ^\d+(\.\d+)?$
FuShunDeThickness(clean_spec) ==
    LET parts     == SplitChars(clean_spec, {"*"})
        last_part == Strip(parts[Len(parts)])
        nums      == SplitChars(last_part, {"."})
    IN  IF /\ Len(parts) > 1
           /\ Len(nums) <= 2
           /\ \A i \in 1..Len(nums) : nums[i] # <<>> /\ AllDigits(nums[i])
        THEN last_part
        ELSE <<>>

\* records.append({...}) for a row with product current_prod, spec raw_spec
\* and price price_val: the record keeps the thickness as it stands in the
\* spec.  The three price fields hold int(price_val) or 0 and are left out.
FuShunDeRecord(current_prod, raw_spec, price_val) ==
    LET no_space == SelectSeq(raw_spec, LAMBDA c : c # " ")
        no_brand == ReplaceAll(ReplaceAll(no_space, KwBaode, <<>>), <<"san">>, <<>>)
        cleaned  == FuShunDeLocations(HanziRuns(no_brand), no_brand, <<>>)
        name     == IF Contains(current_prod, KwBaode)
                    THEN Strip(ReplaceAll(current_prod, KwBaode, <<>>)) ELSE current_prod
    IN  [type      |-> FuShunDeType(name),
         name      |-> name,
         spec      |-> cleaned.spec,
         thickness |-> FuShunDeThickness(cleaned.spec),
         price     |-> IntTrunc(price_val),
         brand     |-> IF Contains(no_space, KwBaode) \/ Contains(current_prod, KwBaode)
                       THEN KwBaode ELSE <<>>,
         location  |-> cleaned.location]

\* the loop over row_idx, with last_product and the records so far
RECURSIVE FuShunDeRows(_, _, _, _, _, _)
FuShunDeRows(df, row_idx, cols, last_product, records, headers) ==
    IF row_idx >= NRows(df) THEN Return(records, headers)
    ELSE LET row          == Row(df, row_idx)
             raw_prod     == Strip(Cell(row, cols[1]).s)
             current_prod == IF raw_prod # <<>> /\ raw_prod # NaN.s
                             THEN raw_prod ELSE last_product
             raw_spec     == Strip(Cell(row, cols[2]).s)
             price_val    == ParseFloat(Cell(row, cols[3]).s)
         IN  IF RowIsEmpty(row)
             THEN FuShunDeRows(df, row_idx + 1, cols, last_product, records, headers)
             ELSE IF \/ current_prod = <<>>
                     \/ raw_spec = <<>> \/ raw_spec = NaN.s
                     \/ ~price_val.ok \/ price_val.kind = "nan"
             THEN FuShunDeRows(df, row_idx + 1, cols, current_prod, records, headers)
             ELSE IF price_val.kind = "inf" THEN Raise("OverflowError")
             ELSE FuShunDeRows(df, row_idx + 1, cols, current_prod,
                               Append(records,
                                      FuShunDeRecord(current_prod, raw_spec, price_val)),
                               headers)

FuShunDeExtract(df, header_row, data_start_row) ==
    LET hdr  == get_column_headers(df, header_row)
        cols == [k \in 1..3 |-> FuShunDeColumn(Row(df, header_row), k)]
    IN  IF hdr.exc # "" THEN hdr
        ELSE IF \E k \in 1..3 : cols[k] = 0 - 1 THEN Return(<<>>, <<>>)
        ELSE FuShunDeRows(df, data_start_row, cols, <<>>, <<>>, hdr.headers)

----------------------------------------------------------------------------
(* YihengPlateStrategy *)

\* cai zhi U+6750 U+8D28, kuan du U+5BBD U+5EA6, chang du U+957F U+5EA6, chan
\* di U+4EA7 U+5730: labels of the header row
KwMaterial == <<"cai", "zhiz">>
KwWidth == <<"kuan", "du">>
KwLength == <<"chang", "du">>
KwOrigin == <<"chan", "di">>
\* di wen rong qi ban U+4F4E U+6E29 U+5BB9 U+5668 U+677F, the product-name
\* marker, and dian hua U+7535 U+8BDD
KwLowTempPlate == <<"dix", "wenx", "rong", "qi", "ban">>
KwPhone == <<"dian", "hua">>

YihengPlateMatch(df) ==
    FirstRowWith(df, 20, {KwMaterial, KwThickness, KwWidth, KwLength, KwOrigin})

\* thickness_cols: the columns whose header label contains hou du
RECURSIVE ThicknessCols(_, _)
ThicknessCols(header, col) ==
    IF col >= Len(header) THEN <<>>
    ELSE (IF Contains(Strip(Cell(header, col).s), KwThickness) THEN <<col>> ELSE <<>>)
         \o ThicknessCols(header, col + 1)

\* records.append({...}) of YihengPlateStrategy; the keys spec1..spec4 and the
\* three price keys repeat thickness, width, length, unit weight and price
YihengPlateRecord(name, final_mat, row, t_col, p_val) ==
    LET text(c) == IF c < Len(row) /\ notna(Cell(row, c)) THEN Strip(Cell(row, c).s) ELSE <<>>
    IN  [type      |-> <<"ban", "cai">>,
         name      |-> name,
         material  |-> final_mat,
         spec      |-> text(t_col + 1) \o <<"*">> \o text(t_col + 2),
         thickness |-> IF notna(Cell(row, t_col)) THEN format_thickness(Cell(row, t_col).s)
                       ELSE <<>>,
         price     |-> IntTrunc(p_val),
         unit_wt   |-> text(t_col + 6),
         brand     |-> text(t_col + 3),
         location  |-> text(t_col + 4)]

\* current_merged_materials after the merged-material cell of the group
YihengPlateMergedOf(merged, t_col, merged_cell) ==
    IF notna(merged_cell) /\ Strip(merged_cell.s) # <<>> /\ Strip(merged_cell.s) # NaN.s
    THEN Put(merged, t_col, Strip(merged_cell.s))
    ELSE merged

YihengPlateMerged(merged, row, t_col) ==
    IF t_col - 2 >= 0 THEN YihengPlateMergedOf(merged, t_col, Cell(row, t_col - 2))
    ELSE merged

\* spec_mat: the text of the specific-material cell
YihengPlateSpecMat(row, t_col) ==
    IF t_col - 1 >= 0 /\ notna(Cell(row, t_col - 1))
    THEN Strip(Cell(row, t_col - 1).s) ELSE <<>>

\* final_mat = merged_mat if merged_mat else spec_mat
YihengPlateFinalMat(merged_mat, spec_mat) ==
    IF merged_mat # <<>> THEN merged_mat ELSE spec_mat

\* from p_val = float(price) on: the material test and records.append, which
\* reads current_product_name and takes int(p_val)
YihengPlateAppend(st, row, t_col, final_mat, p_val) ==
    IF ~p_val.ok THEN st
    ELSE IF final_mat = <<>> THEN st
    ELSE IF ~st.bound THEN [st EXCEPT !.exc = "UnboundLocalError"]
    ELSE IF p_val.kind = "nan" THEN [st EXCEPT !.exc = "ValueError"]
    ELSE IF p_val.kind = "inf" THEN [st EXCEPT !.exc = "OverflowError"]
    ELSE [st EXCEPT !.records =
             Append(@, YihengPlateRecord(st.name, final_mat, row, t_col, p_val))]

\* from the price cell on
YihengPlatePriced(st, row, t_col, price) ==
    IF ~notna(price) \/ Strip(price.s) = <<>> THEN st
    ELSE YihengPlateAppend(st, row, t_col,
             YihengPlateFinalMat(Get(st.merged, t_col, <<>>), YihengPlateSpecMat(row, t_col)),
             ParseFloat(price.s))

\* the body of the loop over thickness_cols.  st holds current_merged_materials
\* (<<>> for None), whether current_product_name is bound and its value, the
\* records and the exception raised, if any
YihengPlateGroup(st, row, t_col) ==
    IF st.exc # "" \/ t_col + 5 >= Len(row) THEN st
    ELSE YihengPlatePriced([st EXCEPT !.merged = YihengPlateMerged(st.merged, row, t_col)],
                           row, t_col, Cell(row, t_col + 5))

RECURSIVE YihengPlateRow(_, _, _)
YihengPlateRow(st, row, cols) ==
    IF cols = <<>> THEN st
    ELSE YihengPlateRow(YihengPlateGroup(st, row, Head(cols)), row, Tail(cols))

\* one pass of the loop over row_idx, row_text being the text of the row
YihengPlateStep(st, row, row_text, cols) ==
    IF RowIsEmpty(row) THEN st
    ELSE IF Contains(row_text, KwLowTempPlate)
    THEN [st EXCEPT !.bound = TRUE, !.name = KwLowTempPlate, !.merged = EmptyDict]
    ELSE IF Contains(row_text, KwPhone) THEN st
    ELSE YihengPlateRow(st, row, cols)

\* the loop over row_idx
RECURSIVE YihengPlateRows(_, _, _, _)
YihengPlateRows(st, df, row_idx, cols) ==
    IF row_idx >= NRows(df) \/ st.exc # "" THEN st
    ELSE YihengPlateRows(YihengPlateStep(st, Row(df, row_idx), RowStr(Row(df, row_idx)), cols),
                         df, row_idx + 1, cols)

\* the return of extract, or the exception that left the loop
YihengPlateResult(hdr, st) ==
    IF hdr.exc # "" THEN hdr
    ELSE IF st.exc # "" THEN Raise(st.exc)
    ELSE Return(st.records, hdr.headers)

YihengPlateExtract(df, header_row, data_start_row) ==
    YihengPlateResult(get_column_headers(df, header_row),
                      YihengPlateRows([merged |-> EmptyDict, bound |-> FALSE, name |-> <<>>,
                                       records |-> <<>>, exc |-> ""],
                                      df, data_start_row,
                                      ThicknessCols(Row(df, header_row), 0)))

----------------------------------------------------------------------------

(* The strategy registry and extract_price_data (core.py)                  *)

\* the registry with the fallback strategy moved to the front
strategiesFallbackFirst ==
    <<"ThreeColumnStrategy", "ZhengdaGalvanizedStrategy", "FourColumnStrategy">>

\* ProductDataProcessor.__init__: self.strategies, in registry order
strategies == <<"ZhengdaGalvanizedStrategy", "FourColumnStrategy", "ThreeColumnStrategy">>

\* the strategy classes called directly: the three the registry holds, the
\* brand-block pipe strategy and the labeled-column strategy
StrategyClasses ==
    {"ZhengdaGalvanizedStrategy", "FourColumnStrategy", "ThreeColumnStrategy",
     "HengwangPipeStrategy", "FuShunDeStrategy"}

\* strategy.match(df)
Match(name, df) ==
    CASE name = "ZhengdaGalvanizedStrategy" -> ZhengdaGalvanizedMatch(df)
      [] name = "FourColumnStrategy" -> FourColumnMatch(df)
      [] name = "ThreeColumnStrategy" -> ThreeColumnMatch(df)
      [] name = "HengwangPipeStrategy" -> HengwangPipeMatch(df)
      [] name = "FuShunDeStrategy" -> FuShunDeMatch(df)
      [] name = "YihengPlateStrategy" -> YihengPlateMatch(df)

\* strategy.extract(df, header_row, data_start_row) on the object self:
\* [ret, self]
Extract(name, self, df, header_row, data_start_row) ==
    CASE name = "ZhengdaGalvanizedStrategy" ->
            [ret |-> ZhengdaGalvanizedExtract(df, header_row, data_start_row), self |-> self]
      [] name = "FourColumnStrategy" ->
            [ret |-> FourColumnExtract(df, header_row, data_start_row), self |-> self]
      [] name = "ThreeColumnStrategy" ->
            ThreeColumnExtract(self, df, header_row, data_start_row)
      [] name = "HengwangPipeStrategy" ->
            [ret |-> HengwangPipeExtract(df, header_row, data_start_row), self |-> self]
      [] name = "FuShunDeStrategy" ->
            [ret |-> FuShunDeExtract(df, header_row, data_start_row), self |-> self]
      [] name = "YihengPlateStrategy" ->
            [ret |-> YihengPlateExtract(df, header_row, data_start_row), self |-> self]

\* no call has returned yet
NoRet == [exc |-> "pending", records |-> <<>>, headers |-> <<>>]

NoMatch == MatchResult(FALSE, 0 - 1, 0 - 1)

\* the strategy objects of the model: the one in the processor's registry and
\* one made by a fresh ThreeColumnStrategy()
Instances == {"registry", "fresh"}

----------------------------------------------------------------------------
(* The grids enumerated *)

SpecA == Txt(<<"4", "0", "*", "4", "0">>)
SpecB == Txt(<<"5", "0", "*", "5", "0">>)
SpecMulti == Txt(<<"3", "0", "*", "3", "0", ",", "6", "0", "*", "4", "0">>)
SpecSpace == Txt(<<" ">>)
ThickNum == Num(<<"3">>)
ThickRange == Txt(<<"2", ".", "5", "-", "3">>)
PriceNum == Num(<<"5", "2", "0", "0">>)
PriceText == Txt(<<"mian", "yi">>)

BlkEmpty == <<NaN, NaN, NaN>>
BlkFull == <<SpecA, ThickNum, PriceNum>>
BlkFullB == <<SpecB, ThickNum, PriceNum>>
BlkInherit == <<NaN, ThickNum, PriceNum>>
BlkSpace == <<SpecSpace, ThickRange, PriceNum>>
BlkTextPrice == <<SpecMulti, ThickRange, PriceText>>

\* data rows of two 3-column blocks
DataRows ==
    { a \o b : a \in {BlkEmpty, BlkFull, BlkInherit, BlkSpace, BlkTextPrice},
               b \in {BlkEmpty, BlkFullB, BlkInherit} }

\* the data rows of the grids extract_price_data is run on
DispatchRows == { BlkFull \o BlkFullB, BlkTextPrice \o BlkInherit, BlkEmpty \o BlkEmpty }

HdrThree == <<Txt(KwSpec), Txt(KwThickness), Txt(KwPrice),
              Txt(KwSpec), Txt(KwThickness), Txt(KwPrice)>>
HdrFour == <<Txt(KwSquare), Txt(KwRect), Txt(KwThickness), Txt(KwPrice), NaN, NaN>>
HdrZhengda == <<Txt(KwZhengda \o <<"guan">> \o KwSpec), Txt(KwPrice), Txt(<<"zhi", "shu">>),
                NaN, NaN, NaN>>
HdrHengwang == <<Txt(KwSpec), Txt(KwWall), Txt(KwWeighed), Txt(KwMeasured), NaN, NaN>>
HdrPipeOnly == <<NaN, Txt(KwWall), Txt(KwWeighed), Txt(KwMeasured), NaN, NaN>>

\* cun huo ming cheng | gui ge xing haox | xiao shou bao jia
HdrFuShunDe == <<Txt(KwInventory \o <<"ming", "cheng">>), Txt(KwSpecModel), Txt(KwQuote),
                 NaN, NaN, NaN>>

\* data rows under HdrFuShunDe: a product (a square tube, none, a plate of the
\* brand baox de), a spec ("100*100*3", "10*1500 tang shan", none) and a price
FuShunDeDataRows ==
    { <<prod, spec, price, NaN, NaN, NaN>> :
        prod \in {Txt(KwSquare), NaN, Txt(KwBaode \o <<"gang", "ban">>)},
        spec \in {Txt(<<"1", "0", "0", "*", "1", "0", "0", "*", "3">>),
                  Txt(<<"1", "0", "*", "1", "5", "0", "0", " ", "tang", "shan">>), NaN},
        price \in {PriceNum, PriceText} }

\* data rows under HdrZhengda, two blocks of spec | price | count: in the
\* first a size with its thickness "20*2", a size "25*3" without a price, the
\* bare thickness "2.5" and "*3", whose size is empty; in the second "32*3"
\* and the bare thickness
ZhengdaDataRows ==
    { a \o b :
        a \in { BlkEmpty,
                <<Txt(<<"2", "0", "*", "2">>), PriceNum, Num(<<"7">>)>>,
                <<Txt(<<"2", "5", "*", "3">>), NaN, NaN>>,
                <<Txt(<<"2", ".", "5">>), Num(<<"5", "3", "0", "0">>), NaN>>,
                <<Txt(<<"*", "3">>), PriceNum, NaN>> },
        b \in { BlkEmpty,
                <<Txt(<<"3", "2", "*", "3">>), PriceNum, NaN>>,
                <<Txt(<<"2", ".", "5">>), Num(<<"5", "3", "0", "0">>), NaN>> } }

\* data rows under HdrFour, square | rect | thickness | price: a square cell
\* (one spec, none, two specs), a rect cell ("60*40" or none), and thickness
\* and price both there, or one of them missing
FourColumnDataRows ==
    { <<sq, rect>> \o tp \o <<NaN, NaN>> :
        sq \in {SpecA, NaN, SpecMulti},
        rect \in {Txt(<<"6", "0", "*", "4", "0">>), NaN},
        tp \in { <<ThickNum, PriceNum>>, <<NaN, PriceNum>>, <<ThickRange, NaN>> } }

\* data rows under HdrHengwang, spec | wall thickness | weighed | measured:
\* the bore size "4 fen" (U+5206) or no spec, a numeric or a text wall
\* thickness, and a weighed price only, no price, or a measured price beside
\* a text
HengwangDataRows ==
    { <<spec, thick>> \o prices \o <<NaN, NaN>> :
        spec \in {Txt(<<"4", "fen">>), NaN},
        thick \in {Num(<<"2", ".", "5">>), PriceText},
        prices \in { <<PriceNum, NaN>>, <<NaN, NaN>>,
                     <<PriceText, Num(<<"5", "3", "0", "0">>)>> } }

HeaderRows == {HdrThree, HdrFour, HdrZhengda, HdrHengwang, HdrPipeOnly}

BlankRow == <<NaN, NaN, NaN, NaN, NaN, NaN>>

RECURSIVE Pad(_)
Pad(k) == IF k <= 0 THEN <<>> ELSE <<BlankRow>> \o Pad(k - 1)

\* the sequences of at most MaxDataRows rows of the set rows
RowSeqs(rows) == UNION { [1..n -> rows] : n \in 0..MaxDataRows }

\* the grids extract_price_data is run on: k blank rows, then a header row or
\* none, then the data rows
Grids ==
    { Pad(k) \o h \o d : k \in 0..MaxPad,
                         h \in {<<>>} \cup { <<r>> : r \in HeaderRows },
                         d \in RowSeqs(DispatchRows) }

\* the header rows each strategy class is called on directly (none: <<>>)
HeadersFor(name) ==
    CASE name = "ZhengdaGalvanizedStrategy" -> {<<HdrZhengda>>, <<HdrThree>>}
      [] name = "FourColumnStrategy" -> {<<HdrFour>>}
      [] name = "ThreeColumnStrategy" -> {<<HdrThree>>, <<HdrHengwang>>, <<>>}
      [] name = "HengwangPipeStrategy" -> {<<HdrHengwang>>, <<HdrPipeOnly>>}
      [] name = "FuShunDeStrategy" -> {<<HdrFuShunDe>>}

\* the data rows each strategy class is called on directly
DataRowsFor(name) ==
    CASE name = "FuShunDeStrategy" -> FuShunDeDataRows
      [] name = "ZhengdaGalvanizedStrategy" -> ZhengdaDataRows
      [] name = "FourColumnStrategy" -> FourColumnDataRows
      [] name = "HengwangPipeStrategy" -> HengwangDataRows
      [] OTHER -> DataRows

\* the (class, grid) pairs of the direct calls
StrategyInputs ==
    UNION { { <<name, h \o d>> : h \in HeadersFor(name), d \in RowSeqs(DataRowsFor(name)) } :
            name \in StrategyClasses }

----------------------------------------------------------------------------
(* Specification Spec: ProductDataProcessor.extract_price_data on a grid   *)

SeqIdle ==
    /\ todo = <<>>
    /\ outs = <<>>

BatchIdle ==
    /\ files = <<>>
    /\ fi = 1
    /\ results = EmptyDict
    /\ file_infos = EmptyDict
    /\ manufacturer = <<>>

\* no single function call under way
PureIdle ==
    /\ callArg = <<>>
    /\ callRes = <<>>

CallIdle ==
    /\ grid = <<>>
    /\ pc = "idle"
    /\ si = 1
    /\ cls = ""
    /\ matched = NoMatch
    /\ invoked = <<>>
    /\ ret = NoRet
    /\ tcSelf = [i \in Instances |-> EmptyDict]

\* the page of app.py has not been run
AppIdle ==
    /\ session_state = EmptyDict
    /\ clicked = ""

FormatIdle ==
    /\ ftIn = <<>>
    /\ ftHist = <<>>

Init ==
    /\ PureIdle
    /\ FormatIdle
    /\ AppIdle
    /\ SeqIdle
    /\ BatchIdle
    /\ grid \in Grids
    /\ pc = "dispatch"
    /\ si = 1
    /\ cls = ""
    /\ matched = NoMatch
    /\ invoked = <<>>
    /\ ret = NoRet
    /\ tcSelf = [i \in Instances |-> EmptyDict]

\* one iteration of  for strategy in self.strategies  (the return [], [] after
\* the loop included)
TryStrategy ==
    /\ pc = "dispatch"
    /\ IF si > Len(strategies)
       THEN /\ ret' = Return(<<>>, <<>>)
            /\ pc' = "done"
            /\ UNCHANGED <<si, matched, invoked, tcSelf>>
       ELSE LET m == Match(strategies[si], grid)
                e == Extract(strategies[si], tcSelf["registry"], grid,
                             m.header_row, m.data_start_row)
            IN  /\ matched' = m
                /\ IF m.is_match
                   THEN /\ invoked' = Append(invoked, strategies[si])
                        /\ ret' = e.ret
                        /\ tcSelf' = [tcSelf EXCEPT !["registry"] = e.self]
                        /\ pc' = "done"
                        /\ UNCHANGED si
                   ELSE /\ si' = si + 1
                        /\ UNCHANGED <<invoked, ret, tcSelf, pc>>
    /\ UNCHANGED <<grid, cls, fmtVars, appVars, pureVars, todo, outs, batchVars>>

Next == TryStrategy

Spec == Init /\ [][Next]_vars

----------------------------------------------------------------------------
(* Specification SpecStrategy: match and then extract of one strategy      *)
(* class, called directly on a grid                                        *)

InitStrategy ==
    /\ PureIdle
    /\ FormatIdle
    /\ AppIdle
    /\ SeqIdle
    /\ BatchIdle
    /\ \E input \in StrategyInputs : cls = input[1] /\ grid = input[2]
    /\ pc = "match"
    /\ si = 1
    /\ matched = NoMatch
    /\ invoked = <<>>
    /\ ret = NoRet
    /\ tcSelf = [i \in Instances |-> EmptyDict]

\* strategy.match(df)
CallMatch ==
    /\ pc = "match"
    /\ matched' = Match(cls, grid)
    /\ pc' = IF matched'.is_match THEN "extract" ELSE "done"
    /\ UNCHANGED <<grid, si, cls, invoked, ret, tcSelf, fmtVars, appVars, pureVars, todo, outs, batchVars>>

\* strategy.extract(df, header_row, data_start_row) with the rows match gave
CallExtract ==
    /\ pc = "extract"
    /\ LET e == Extract(cls, tcSelf["fresh"], grid, matched.header_row, matched.data_start_row)
       IN  /\ ret' = e.ret
           /\ tcSelf' = [tcSelf EXCEPT !["fresh"] = e.self]
    /\ invoked' = Append(invoked, cls)
    /\ pc' = "done"
    /\ UNCHANGED <<grid, si, cls, matched, fmtVars, appVars, pureVars, todo, outs, batchVars>>

NextStrategy == CallMatch \/ CallExtract

SpecStrategy == InitStrategy /\ [][NextStrategy]_vars

----------------------------------------------------------------------------
(* Specification SpecPlate: match and then extract of YihengPlateStrategy  *)
(* on a grid of two plate groups                                           *)

\* merged | specific material | hou du | kuan du | chang du | chan di | ti huo
\* di | jia ge | unit weight, and a second group without the unit weight
HdrYiheng ==
    LET group == <<Txt(KwMaterial), Txt(KwMaterial), Txt(KwThickness), Txt(KwWidth),
                   Txt(KwLength), Txt(KwOrigin), Txt(<<"ti", "huo", "di">>), Txt(KwPrice)>>
    IN  group \o <<NaN>> \o group

\* one group of a data row: merged material, specific material, a plate 10 x
\* 1500 x 6000 of an gang, the location cell and the price
PlateGroup(merged, specific, location, price) ==
    <<merged, specific, Num(<<"1", "0">>), Num(<<"1", "5", "0", "0">>),
      Num(<<"6", "0", "0", "0">>), Txt(<<"an", "gang">>), location, price>>

NoGroup == <<NaN, NaN, NaN, NaN, NaN, NaN, NaN, NaN>>

MatQ345R == Txt(<<"Q", "3", "4", "5", "R">>)
MatQ235B == Txt(<<"Q", "2", "3", "5", "B">>)
Mat16MnDR == Txt(<<"1", "6", "M", "n", "D", "R">>)

\* the data rows: a first group with or without merged and specific material
\* and with a numeric, no or a text price, beside a second group that is
\* empty, has a merged material, or has no material; the row of the product
\* name marker; and a row that holds dian hua
PlateRows ==
    { a \o <<NaN>> \o b :
        a \in { PlateGroup(MatQ345R, MatQ235B, NaN, PriceNum),
                PlateGroup(NaN, MatQ235B, NaN, PriceNum),
                PlateGroup(NaN, NaN, NaN, PriceNum),
                PlateGroup(MatQ345R, NaN, NaN, NaN),
                PlateGroup(NaN, MatQ235B, NaN, PriceText) },
        b \in { NoGroup,
                PlateGroup(Mat16MnDR, NaN, NaN, PriceNum),
                PlateGroup(NaN, NaN, NaN, PriceNum) } }
    \cup { <<Txt(KwLowTempPlate)>> \o Tail(NoGroup) \o <<NaN>> \o NoGroup,
           PlateGroup(MatQ345R, MatQ235B, Txt(KwPhone \o <<"1", "2", "3">>), PriceNum)
               \o <<NaN>> \o NoGroup }

PlateGrids ==
    { <<HdrYiheng>> \o d : d \in UNION { [1..n -> PlateRows] : n \in 0..MaxPlateRows } }

InitPlate ==
    /\ PureIdle
    /\ FormatIdle
    /\ AppIdle
    /\ SeqIdle
    /\ BatchIdle
    /\ cls = "YihengPlateStrategy"
    /\ grid \in PlateGrids
    /\ pc = "match"
    /\ si = 1
    /\ matched = NoMatch
    /\ invoked = <<>>
    /\ ret = NoRet
    /\ tcSelf = [i \in Instances |-> EmptyDict]

SpecPlate == InitPlate /\ [][NextStrategy]_vars

----------------------------------------------------------------------------
(* Specification SpecFormat: format_thickness applied to a token and then  *)
(* to its own results                                                      *)

\* the characters thickness tokens are enumerated over
TokAlphabet == {"0", "1", "3", ".", "-", "x"}

\* the tokens the testable property names
TokExamples == { <<"3">>, <<"3", ".", "0">>, <<"2", ".", "5", "-", "3">>,
                 <<"3", "WD", "4">>, <<" ", "3", " ">> }

Tokens == TokExamples \cup UNION { [1..n -> TokAlphabet] : n \in 0..MaxTokLen }

InitFormat ==
    /\ PureIdle
    /\ AppIdle
    /\ ftIn \in Tokens
    /\ ftHist = <<>>
    /\ CallIdle
    /\ SeqIdle
    /\ BatchIdle

\* one more call of format_thickness, on the token or on the last result
FormatThickness ==
    /\ Len(ftHist) < MaxApply
    /\ ftHist' = Append(ftHist,
                        format_thickness(IF ftHist = <<>> THEN ftIn
                                         ELSE ftHist[Len(ftHist)]))
    /\ UNCHANGED <<ftIn, callVars, todo, outs, batchVars, pureVars, appVars>>

NextFormat == FormatThickness

SpecFormat == InitFormat /\ [][NextFormat]_vars

----------------------------------------------------------------------------
(* Specification SpecLength: normalize_length applied to a length text     *)

\* the call has not returned yet
NoRes == [exc |-> "pending", val |-> <<>>]

\* the characters length texts are enumerated over
LengthAlphabet == {"0", "1", "2", "6", ".", "m", "mi", "hao", " "}

\* the length texts the testable property names, and an upper-case unit
LengthExamples ==
    { <<"1", ".", "2", "mi">>, <<"6", "0", "0", "0", "m", "m">>, <<"6">>,
      <<"6", "0", "0", "0">>, <<"6", "0", "0", "0", "hao", "mi">>, <<"6", "M">>,
      <<"1", "2", "M", "M">> }

LengthTexts ==
    LengthExamples \cup UNION { [1..n -> LengthAlphabet] : n \in 0..MaxLengthLen }

InitLength ==
    /\ FormatIdle
    /\ AppIdle
    /\ SeqIdle
    /\ BatchIdle
    /\ CallIdle
    /\ callArg \in LengthTexts
    /\ callRes = NoRes

\* normalize_length(length_str)
NormalizeLength ==
    /\ callRes = NoRes
    /\ callRes' = normalize_length(callArg)
    /\ UNCHANGED <<callArg, fmtVars, appVars, callVars, todo, outs, batchVars>>

NextLength == NormalizeLength

SpecLength == InitLength /\ [][NextLength]_vars

----------------------------------------------------------------------------
(* Specification SpecParse: parse_spec_cell applied to a cell              *)

\* the characters of the enumerated cell texts: two digits, the star, and
\* every separator but "<br>", which the examples hold
CellAlphabet == {"3", "4", "*", " ", ",", "NL", "WC"}

CellExamples ==
    { <<"3", "0", "*", "3", "0", ",", " ", "4", "0", "*", "4", "0", "NL",
        "5", "0", "*", "5", "0">>,
      <<"3", "0", "<", "b", "r", ">", "4", "0">>,
      <<"3", "<", "b", "r", ">", "3">>,
      <<"3", "0", " ", "*", " ", "3", "0", " ", "3", "0", "*", "3", "0">> }

CellTexts ==
    CellExamples \cup UNION { [1..n -> CellAlphabet] : n \in 0..MaxCellLen }

SpecCells == {NaN, Num(<<"3", "0">>)} \cup { Txt(s) : s \in CellTexts }

InitParse ==
    /\ FormatIdle /\ SeqIdle /\ BatchIdle /\ CallIdle
    /\ AppIdle
    /\ callArg \in SpecCells
    /\ callRes = NoRes

ParseSpecCell ==
    /\ callRes = NoRes
    /\ callRes' = Ok(parse_spec_cell(callArg))
    /\ UNCHANGED <<callArg, fmtVars, appVars, callVars, todo, outs, batchVars>>

NextParse == ParseSpecCell

SpecParse == InitParse /\ [][NextParse]_vars

----------------------------------------------------------------------------
(* Specification SpecScoping: one strategy object of the registry called   *)
(* on grid A and then on grid B, then a fresh object called on B           *)

\* the data rows of the grids of the two-call sequences
ScopeRows == { BlkFull \o BlkEmpty, BlkInherit \o BlkInherit, BlkEmpty \o BlkFullB }

\* the header row each registered strategy matches
ScopeHeader(name) ==
    CASE name = "ZhengdaGalvanizedStrategy" -> HdrZhengda
      [] name = "FourColumnStrategy" -> HdrFour
      [] name = "ThreeColumnStrategy" -> HdrThree

\* the grids of the two-call sequences: the header row, then the data rows
ScopeGrids(name) == { <<ScopeHeader(name)>> \o d : d \in RowSeqs(ScopeRows) }

InitScoping ==
    /\ PureIdle
    /\ FormatIdle
    /\ AppIdle
    /\ BatchIdle
    /\ \E i \in 1..Len(strategies) :
          /\ cls = strategies[i]
          /\ todo \in [1..2 -> ScopeGrids(strategies[i])]
    /\ outs = <<>>
    /\ grid = <<>>
    /\ pc = "registry"
    /\ si = 1
    /\ matched = NoMatch
    /\ invoked = <<>>
    /\ ret = NoRet
    /\ tcSelf = [i \in Instances |-> EmptyDict]

\* the body of the loop of extract_price_data for the strategy object of class
\* cls that the registry holds, on the next grid: match, then extract with
\* the rows match gave
CallRegistry ==
    /\ pc = "registry"
    /\ LET df == todo[Len(outs) + 1]
           m  == Match(cls, df)
           e  == Extract(cls, tcSelf["registry"], df, m.header_row, m.data_start_row)
       IN  /\ m.is_match
           /\ grid' = df
           /\ matched' = m
           /\ outs' = Append(outs, e.ret)
           /\ tcSelf' = [tcSelf EXCEPT !["registry"] = e.self]
           /\ invoked' = Append(invoked, cls)
    /\ pc' = IF Len(outs') = Len(todo) THEN "fresh" ELSE "registry"
    /\ UNCHANGED <<si, cls, ret, todo, fmtVars, appVars, pureVars, batchVars>>

\* match and extract of a newly constructed object of class cls on the grid
\* of the last call
CallFresh ==
    /\ pc = "fresh"
    /\ LET m == Match(cls, grid)
           e == Extract(cls, tcSelf["fresh"], grid, m.header_row, m.data_start_row)
       IN  /\ m.is_match
           /\ matched' = m
           /\ ret' = e.ret
           /\ tcSelf' = [tcSelf EXCEPT !["fresh"] = e.self]
    /\ pc' = "done"
    /\ UNCHANGED <<grid, si, cls, invoked, todo, outs, fmtVars, appVars, pureVars, batchVars>>

NextScoping == CallRegistry \/ CallFresh

SpecScoping == InitScoping /\ [][NextScoping]_vars

----------------------------------------------------------------------------
(* ProductDataProcessor.process_file                                       *)

\* pd.read_excel(BytesIO(source_file_content), header=None): the grid of a
\* workbook, an exception for bytes that are not one
read_excel(content) ==
    IF content.readable THEN [exc |-> "", df |-> content.sheet]
    ELSE [exc |-> "Exception", df |-> <<>>]

\* df.astype(str).to_string(): a line of column labels, then one line per
\* row with its index and the str() of its cells.  pandas pads the columns
\* with spaces; every search below treats a run of spaces like one space, so
\* the fields are joined by single spaces.  The cells of the model hold no
\* line feed, tab or backslash, which to_string would escape.
to_string(df) ==
    IF df = <<>>
    THEN <<"E", "m", "p", "t", "y", " ", "D", "a", "t", "a", "F", "r", "a", "m", "e", "NL",
           "C", "o", "l", "u", "m", "n", "s", ":", " ", "[", "]", "NL",
           "I", "n", "d", "e", "x", ":", " ", "[", "]">>
    ELSE Join(<< <<" ">> \o Join([c \in 1..NCols(df) |-> NatToDigits(c - 1)], <<" ">>) >>
              \o [r \in 1..NRows(df) |-> NatToDigits(r - 1) \o <<" ">> \o RowStr(df[r])],
              <<"NL">>)

\* product_types and product_keywords, in the order of the lists: fang ju
\* guan U+65B9 U+77E9 U+7BA1, ban cai U+677F U+6750, xing cai U+578B U+6750,
\* guan cai U+7BA1 U+6750, kuang yong pin U+77FF U+7528 U+54C1, bangx cai
\* U+68D2 U+6750, caix tu juan U+5F69 U+6D82 U+5377, bu xiu gang U+4E0D
\* U+9508 U+94A2; re dux xin U+70ED U+9540 U+950C, leng zha U+51B7 U+8F67,
\* re zha U+70ED U+8F67, hei tui U+9ED1 U+9000
ProductTypes ==
    << <<"fang", "ju", "guan">>, <<"ban", "cai">>, <<"xing", "cai">>, <<"guan", "cai">>,
       <<"kuang", "yong", "pin">>, <<"bangx", "cai">>, <<"caix", "tu", "juan">>,
       <<"bu", "xiu", "gang">> >>

ProductKeywords ==
    << <<"re", "dux", "xin">>, <<"leng", "zha">>, <<"re", "zha">>, <<"dux", "xin">>,
       <<"bu", "xiu", "gang">>, <<"caix", "tu">>, <<"hei", "tui">>, <<"re", "dux">> >>

\* for keyword in keywords: if keyword in text (one of texts) ... break;
\* <<>> when no keyword is found
RECURSIVE FirstKeyword(_, _)
FirstKeyword(keywords, texts) ==
    IF keywords = <<>> THEN <<>>
    ELSE IF \E t \in texts : Contains(t, Head(keywords)) THEN Head(keywords)
    ELSE FirstKeyword(Tail(keywords), texts)

\* step 1: file_info['product_type'] before the brand-triad correction
DetectProductType(df_str) ==
    LET listed == FirstKeyword(ProductTypes, {df_str, SelectSeq(df_str, LAMBDA c : c # " ")})
    IN  IF listed # <<>> THEN listed
        ELSE IF \/ Contains(df_str, <<"re", "dux", "guan">>)
                \/ Contains(df_str, <<"dux", "xin", "guan">>)
        THEN <<"guan", "cai">>
        ELSE <<>>

\* step 2: file_info['product_name'] from the file name, then the content;
\* the brand-triad name dux xin guan, and hei (U+9ED1) for a square/rect
\* document without a name
DetectProductName(df_str, filename, product_type) ==
    LET by_name == FirstKeyword(ProductKeywords, {filename})
        found   == IF by_name # <<>> THEN by_name
                   ELSE FirstKeyword(ProductKeywords, {df_str})
    IN  IF \E t \in {df_str, filename} : Contains(t, KwZhengda \o <<"guan">>)
        THEN <<"dux", "xin", "guan">>
        ELSE IF found = <<>> /\ Contains(product_type, <<"fang", "ju", "guan">>)
        THEN <<"hei">>
        ELSE found

\* step 3: re.findall(r'chang du\s*([\d\.]+)\s*(mi|mm|hao mi|m)', df_str)[0]
\* as number + unit (chang du U+957F U+5EA6), <<>> without a match
LengthMatchAt(s, i) ==
    LET after  == LStrip(Drop(s, i + 1))
        number == TakeWhile(after, Digits \cup {"."})
        unit   == FirstAlternative(LStrip(Drop(after, Len(number))),
                                   <<UnitMetre, <<"m", "m">>, UnitMillimetre, <<"m">> >>)
    IN  IF SubSeq(s, i, i + 1) = <<"chang", "du">> /\ number # <<>> /\ unit # <<>>
        THEN number \o unit
        ELSE <<>>

DetectLength(df_str) ==
    LET hits == { i \in 1..(Len(df_str) - 1) : LengthMatchAt(df_str, i) # <<>> }
    IN  IF hits = {} THEN Ok(<<>>)
        ELSE normalize_length(LengthMatchAt(df_str, CHOOSE i \in hits : \A j \in hits : i <= j))

\* step 4: guo bang when the text holds jian jin jia (U+68C0 U+65A4 U+4EF7)
\* or guo bang, else li ji (U+7406 U+8BA1) when it holds li ji or li lun
DetectPriceType(df_str) ==
    IF Contains(df_str, <<"jian", "jin", "jia">>) \/ Contains(df_str, KwWeighed)
    THEN KwWeighed
    ELSE IF Contains(df_str, <<"li", "ji">>) \/ Contains(df_str, <<"li", "lun">>)
    THEN <<"li", "ji">>
    ELSE <<>>

\* re.findall(label + r'[WK:]\s*([^\s]+)', df_str)[0]: the word after the
\* first label that a colon ("WK" is the full-width colon U+FF1A) and a word
\* follow; <<>> without a match
BrandAfter(s, label) ==
    LET word(i) == LStrip(Drop(s, i + Len(label)))
        hits    == { i \in 1..(Len(s) - Len(label)) :
                        /\ SubSeq(s, i, i + Len(label) - 1) = label
                        /\ s[i + Len(label)] \in {"WK", ":"}
                        /\ word(i) # <<>> }
    IN  IF hits = {} THEN <<>>
        ELSE LET w == word(CHOOSE i \in hits : \A j \in hits : i <= j)
             IN  TakeWhile(w, {w[k] : k \in 1..Len(w)} \ Whitespace)

\* re.findall(r'([^\s]+' + suffix + ')', df_str)[0]: in the first word that
\* holds the suffix after at least one character, the characters up to the
\* end of its last occurrence
RECURSIVE BrandEnding(_, _)
BrandEnding(words, suffix) ==
    IF words = <<>> THEN <<>>
    ELSE LET w    == Head(words)
             ends == { e \in (Len(suffix) + 1)..Len(w) :
                          SubSeq(w, e - Len(suffix) + 1, e) = suffix }
         IN  IF ends = {} THEN BrandEnding(Tail(words), suffix)
             ELSE SubSeq(w, 1, CHOOSE e \in ends : \A f \in ends : f <= e)

\* step 5: zheng da zhix guan (U+6B63 U+5927 U+5236 U+7BA1) when zheng da is
\* in the text or the file name, else the first of the five patterns (pin pai
\* U+54C1 U+724C, changx jiax U+5382 U+5BB6, zhix guan, gang tie U+94A2
\* U+94C1, gongx si U+516C U+53F8) whose first match has fewer than 10
\* characters
DetectBrand(df_str, filename) ==
    LET words   == SplitChars(df_str, Whitespace)
        matches == << BrandAfter(df_str, <<"pin", "pai">>),
                      BrandAfter(df_str, <<"changx", "jiax">>),
                      BrandEnding(words, <<"zhix", "guan">>),
                      BrandEnding(words, <<"gang", "tie">>),
                      BrandEnding(words, <<"gongx", "si">>) >>
        usable  == { k \in 1..5 : matches[k] # <<>> /\ Len(matches[k]) < 10 }
    IN  IF \E t \in {df_str, filename} : Contains(t, <<"zheng", "da">>)
        THEN <<"zheng", "da", "zhix", "guan">>
        ELSE IF usable = {} THEN <<>>
        ELSE matches[CHOOSE k \in usable : \A j \in usable : k <= j]

\* the file_info of a text df_str: exc is the exception normalize_length
\* raised, if any.  Of the keys of file_info the model keeps product_type,
\* product_name, length, price_type, brand and unit; the unit is always
\* jianx (U+4EF6) and is not read from the grid.
FileInfoOf(df_str, filename, product_type, length) ==
    [exc          |-> length.exc,
     product_type |-> IF /\ product_type = <<>>
                         /\ \E t \in {df_str, filename} : Contains(t, KwZhengda \o <<"guan">>)
                      THEN <<"guan", "cai">> ELSE product_type,
     product_name |-> DetectProductName(df_str, filename, product_type),
     length       |-> length.val,
     price_type   |-> DetectPriceType(df_str),
     brand        |-> DetectBrand(df_str, filename),
     unit         |-> <<"jianx">>]

\* note_keywords: shuo ming U+8BF4 U+660E, bei zhu U+5907 U+6CE8, zhu yi
\* U+6CE8 U+610F, ti shi U+63D0 U+793A, yao qiu U+8981 U+6C42
NoteKeywords ==
    << <<"shuo", "mingx">>, <<"bei", "zhu">>, <<"zhu", "yix">>, <<"ti", "shix">>,
       <<"yao", "qiu">> >>

\* range(min(20, len(df))): the rows scanned for notes
NoteScan == 20

\* the inner loop over note_keywords for one row: row_str.strip() is appended
\* for each keyword found in row_str
RowNotes(row_str) ==
    [k \in 1..Len(SelectSeq(NoteKeywords, LAMBDA kw : Contains(row_str, kw))) |->
        Strip(row_str)]

\* step 9: file_info['notes'], from row i (counted from 1) on
RECURSIVE DetectNotes(_, _)
DetectNotes(df, i) ==
    IF i > NoteScan \/ i > NRows(df) THEN <<>>
    ELSE RowNotes(RowStr(df[i])) \o DetectNotes(df, i + 1)

\* file_info with its notes; a call that raised in step 3 has none
WithNotes(info, notes) ==
    info @@ [notes |-> IF info.exc # "" THEN <<>> ELSE notes]

extract_all_info_from_text(df_str, filename) ==
    FileInfoOf(df_str, filename, DetectProductType(df_str), DetectLength(df_str))

\* extract_all_info_from_file(df, filename)
extract_all_info_from_file(df, filename) ==
    WithNotes(extract_all_info_from_text(to_string(df), filename), DetectNotes(df, 1))

----------------------------------------------------------------------------
(* ProductDataProcessor.create_template_dataframe and the sort             *)
(*                                                                         *)
(* A canonical record keeps the columns type, name, model, spec1..spec4,   *)
(* unit, brand, price_type and price of the template row.                  *)

\* re.match(r'(\d+)\s*\*\s*(\d+)', spec_str).groups(), <<>> without a match
DimensionMatch(spec_str) ==
    LET dim1  == TakeWhile(spec_str, Digits)
        star  == LStrip(Drop(spec_str, Len(dim1)))
        dim2  == IF star # <<>> /\ Head(star) = "*"
                 THEN TakeWhile(LStrip(Tail(star)), Digits) ELSE <<>>
    IN  IF dim1 # <<>> /\ dim2 # <<>> THEN <<dim1, dim2>> ELSE <<>>

\* a shape suffix that does not compare the dimensions
ShapeSuffixAlwaysSquare(spec_str) ==
    IF DimensionMatch(spec_str) # <<>> \/ Contains(spec_str, <<"fang">>) THEN KwSquare
    ELSE IF Contains(spec_str, <<"ju">>) THEN KwRect
    ELSE <<>>

\* shape_suffix: fang guan for two equal leading dimensions, ju guan for two
\* unequal ones, else by the character fang or ju in the spec
ShapeSuffix(spec_str) ==
    LET dims == DimensionMatch(spec_str)
    IN  IF dims # <<>>
        THEN (IF StripLeadingZeros(dims[1]) = StripLeadingZeros(dims[2])
              THEN KwSquare ELSE KwRect)
        ELSE IF Contains(spec_str, <<"fang">>) THEN KwSquare
        ELSE IF Contains(spec_str, <<"ju">>) THEN KwRect
        ELSE <<>>

\* full_product_name
FullProductName(base_name, shape_suffix, product_type) ==
    IF /\ Contains(base_name, <<"re", "dux">>) \/ Contains(base_name, <<"dux", "xin">>)
       /\ product_type = <<"guan", "cai">>
    THEN <<"dux", "xin", "guan">>
    ELSE IF shape_suffix = <<>> THEN base_name
    ELSE IF base_name = <<"hei">> THEN <<"hei">> \o shape_suffix
    ELSE IF Contains(base_name, shape_suffix) THEN base_name
    ELSE IF Contains(base_name, <<"fang", "ju", "guan">>)
    THEN ReplaceAll(base_name, <<"fang", "ju", "guan">>, shape_suffix)
    ELSE base_name \o shape_suffix

\* re.findall(r'(\d+)', spec_str)
RECURSIVE DigitRuns(_)
DigitRuns(s) ==
    IF s = <<>> THEN <<>>
    ELSE IF Head(s) \notin Digits THEN DigitRuns(Tail(s))
    ELSE <<TakeWhile(s, Digits)>> \o DigitRuns(Drop(s, Len(TakeWhile(s, Digits))))

\* the first two dimensions of a plate in the order written
PlateWidthLengthAsWritten(dims) ==
    <<NatToDigits(DigitsToNat(dims[1])), NatToDigits(DigitsToNat(dims[2]))>>

\* d1, d2 = int(dims[0]), int(dims[1]); str(min(d1, d2)), str(max(d1, d2))
PlateWidthLength(dims) ==
    LET d1 == DigitsToNat(dims[1])
        d2 == DigitsToNat(dims[2])
    IN  IF d1 <= d2 THEN <<NatToDigits(d1), NatToDigits(d2)>>
        ELSE <<NatToDigits(d2), NatToDigits(d1)>>

\* the mapping table of the product type p_type: spec1..spec4 and the unit
\* (kuai U+5757) of the record of item
SpecFields(p_type, item, file_info, dims) ==
    LET length == file_info.length
        none   == <<>>
        row(spec1, spec2, spec3, spec4, unit) ==
            [spec1 |-> spec1, spec2 |-> spec2, spec3 |-> spec3, spec4 |-> spec4,
             unit |-> unit]
    IN  CASE p_type = <<"fang", "ju", "guan">> ->
                row(item.thickness, length, none, none, <<"jianx">>)
          [] p_type = <<"ban", "cai">> ->
                IF Len(dims) >= 2
                THEN row(item.thickness, PlateWidthLength(dims)[1],
                         PlateWidthLength(dims)[2], none, <<"kuai">>)
                ELSE IF Len(dims) = 1
                THEN row(item.thickness, dims[1], length, none, <<"kuai">>)
                ELSE row(item.thickness, none, length, none, <<"kuai">>)
          [] p_type = <<"xing", "cai">> -> row(none, length, none, none, <<"jianx">>)
          [] p_type = <<"guan", "cai">> ->
                row(item.thickness, length, none,
                    IF "count" \in DOMAIN item THEN item.count ELSE none, <<"jianx">>)
          [] p_type = <<"kuang", "yong", "pin">> ->
                row(none, length, none, none, <<"jianx">>)
          [] p_type = <<"bangx", "cai">> -> row(length, none, none, none, <<"jianx">>)
          [] p_type = <<"caix", "tu", "juan">> ->
                row(item.thickness, IF Len(dims) >= 1 THEN dims[1] ELSE none, length,
                    none, <<"kuai">>)
          [] OTHER -> row(item.thickness, item.spec, none, none, file_info.unit)

\* a model_val that is cut for the product type guan cai only
ModelValPipeTypeOnly(spec_str, p_type, full_product_name) ==
    IF p_type = <<"guan", "cai">> /\ Contains(spec_str, <<"*">>)
    THEN Strip(SplitChars(spec_str, {"*"})[1])
    ELSE spec_str

\* model_val: the part before the first "*" for a round pipe
ModelVal(spec_str, p_type, full_product_name) ==
    IF /\ \/ p_type = <<"guan", "cai">>
          \/ /\ Contains(full_product_name, <<"guan">>)
             /\ p_type # <<"fang", "ju", "guan">>
             /\ ~Contains(full_product_name, <<"fang">>)
             /\ ~Contains(full_product_name, <<"ju">>)
       /\ Contains(spec_str, <<"*">>)
    THEN Strip(SplitChars(spec_str, {"*"})[1])
    ELSE spec_str

\* a template record whose unit is the unit of file_info
TemplateRecordUnitOfInfo(item, file_info, full_product_name, fields) ==
    [type       |-> file_info.product_type,
     name       |-> full_product_name,
     model      |-> ModelVal(item.spec, file_info.product_type, full_product_name),
     spec1      |-> fields.spec1,
     spec2      |-> fields.spec2,
     spec3      |-> fields.spec3,
     spec4      |-> fields.spec4,
     unit       |-> file_info.unit,
     brand      |-> file_info.brand,
     price_type |-> file_info.price_type,
     price      |-> item.price]

\* the template record of one raw record; the type is file_info's
TemplateRecord(item, file_info, full_product_name, fields) ==
    [type       |-> file_info.product_type,
     name       |-> full_product_name,
     model      |-> ModelVal(item.spec, file_info.product_type, full_product_name),
     spec1      |-> fields.spec1,
     spec2      |-> fields.spec2,
     spec3      |-> fields.spec3,
     spec4      |-> fields.spec4,
     unit       |-> fields.unit,
     brand      |-> file_info.brand,
     price_type |-> file_info.price_type,
     price      |-> item.price]

\* create_template_dataframe(source_data, file_info, specs_analysis): one row
\* per raw record, in order.  Every raw record of the model has the keys
\* spec, thickness and price the loop reads; specs_analysis is not used.
create_template_dataframe(source_data, file_info) ==
    [i \in 1..Len(source_data) |->
        TemplateRecord(source_data[i], file_info,
                       FullProductName(file_info.product_name,
                                       ShapeSuffix(source_data[i].spec),
                                       file_info.product_type),
                       SpecFields(file_info.product_type, source_data[i], file_info,
                                  DigitRuns(source_data[i].spec)))]

\* _get_spec1_value: the float of the first dash-separated part, 0.0 for an
\* empty or unparsable one
get_spec1_value(spec1_str) ==
    LET val == ParseFloat(Strip(SplitChars(Strip(spec1_str), DashChars)[1]))
    IN  IF spec1_str = <<>> \/ ~val.ok THEN FloatFin(FALSE, <<>>, 0) ELSE val

\* product_ranks / model_ranks: the rank of keys[i] by first appearance
AppearanceRank(keys, i) ==
    LET first == CHOOSE j \in 1..i : keys[j] = keys[i] /\ \A m \in 1..(j - 1) : keys[m] # keys[i]
    IN  Cardinality({ keys[m] : m \in 1..(first - 1) })

\* the helper columns p_rank, m_rank and s1_val of a table
SortKeys(table) ==
    [i \in 1..Len(table) |->
        [p_rank |-> AppearanceRank([m \in 1..Len(table) |-> Strip(table[m].name)], i),
         m_rank |-> AppearanceRank([m \in 1..Len(table) |-> Strip(table[m].model)], i),
         s1_val |-> get_spec1_value(table[i].spec1)]]

\* a < b on the sort keys, compared column by column; a NaN sorts last
KeyLess(a, b) ==
    \/ a.p_rank < b.p_rank
    \/ a.p_rank = b.p_rank /\ a.m_rank < b.m_rank
    \/ /\ a.p_rank = b.p_rank /\ a.m_rank = b.m_rank
       /\ \/ FloatLess(a.s1_val, b.s1_val)
          \/ a.s1_val.kind # "nan" /\ b.s1_val.kind = "nan"

\* a sort that puts each row ahead of the rows with an equal key
RECURSIVE SortValuesEqualFirst(_, _, _)
SortValuesEqualFirst(keys, n, done) ==
    IF n > Len(keys) THEN done
    ELSE LET ahead == { p \in 1..Len(done) : KeyLess(keys[done[p]], keys[n]) }
             at    == IF ahead = {} THEN 0 ELSE CHOOSE p \in ahead : \A q \in ahead : q <= p
         IN  SortValuesEqualFirst(keys, n + 1,
                        SubSeq(done, 1, at) \o <<n>> \o SubSeq(done, at + 1, Len(done)))

\* sort_values(by=['p_rank', 'm_rank', 's1_val']): rows keys[n..] are put one
\* by one into the sorted rows done, each behind the rows that are not
\* greater (the lexsort of pandas is stable); done holds the row numbers
RECURSIVE SortValues(_, _, _)
SortValues(keys, n, done) ==
    IF n > Len(keys) THEN done
    ELSE LET ahead == { p \in 1..Len(done) : ~KeyLess(keys[n], keys[done[p]]) }
             at    == IF ahead = {} THEN 0 ELSE CHOOSE p \in ahead : \A q \in ahead : q <= p
         IN  SortValues(keys, n + 1,
                        SubSeq(done, 1, at) \o <<n>> \o SubSeq(done, at + 1, Len(done)))

\* the helper columns process_file adds for the sort
HelperColumns == {"p_rank", "m_rank", "s1_val"}

\* template_df[...] = ...: the rows with the helper columns added
AddHelperColumns(table) == [i \in 1..Len(table) |-> table[i] @@ SortKeys(table)[i]]

\* drop(columns=cols) of one row
DropColumns(rec, cols) == [f \in DOMAIN rec \ cols |-> rec[f]]

\* the table sorted with its helper columns left in
SortTableKeepHelpers(table, order) ==
    [p \in 1..Len(table) |-> AddHelperColumns(table)[order[p]]]

\* process_file, step five: the helper columns added, the table sorted, the
\* helper columns dropped
SortTable(table, order) ==
    [p \in 1..Len(table) |-> DropColumns(AddHelperColumns(table)[order[p]], HelperColumns)]

----------------------------------------------------------------------------
(* ProductDataProcessor.extract_price_data and process_file                *)

\* extract_price_data(df) from the strategy at position i of the registry on:
\* the loop  for strategy in self.strategies  and the return [], [] after it
RECURSIVE extract_price_data_from(_, _)
extract_price_data_try(df, i, m) ==
    IF m.is_match
    THEN Extract(strategies[i], EmptyDict, df, m.header_row, m.data_start_row).ret
    ELSE extract_price_data_from(df, i + 1)

extract_price_data_from(df, i) ==
    IF i > Len(strategies) THEN Return(<<>>, <<>>)
    ELSE extract_price_data_try(df, i, Match(strategies[i], df))

\* extract_price_data(df): the outcome of the dispatch loop
extract_price_data(df) == extract_price_data_from(df, 1)

\* what process_file hands back: a bare pd.DataFrame(), the tuple
\* (template_df, file_info), or an exception
BareDataFrame(path) ==
    [kind |-> "DataFrame", path |-> path, exc |-> "", nrows |-> 0, table |-> <<>>,
     file_info |-> <<>>]

TablePair(table, file_info) ==
    [kind |-> "tuple", path |-> "success", exc |-> "", nrows |-> Len(table),
     table |-> table, file_info |-> <<file_info>>]

Raised(exc) ==
    [kind |-> "raise", path |-> "extract_raised", exc |-> exc, nrows |-> 0, table |-> <<>>,
     file_info |-> <<>>]

\* process_file from step four on: the template rows, the sort, the return
process_file_template(file_info, template) ==
    TablePair(SortTable(template, SortValues(SortKeys(template), 1, <<>>)), file_info)

\* process_file after the extraction: the check of price_data, the table and
\* the return
process_file_extracted(file_info, extracted) ==
    IF extracted.exc # "" THEN Raised(extracted.exc)
    ELSE IF extracted.records = <<>> THEN BareDataFrame("no_price_data")
    ELSE process_file_template(file_info,
                               create_template_dataframe(extracted.records, file_info))

\* process_file without the replacement of the brand
process_file_info_detected(df, file_info, manuf) ==
    IF file_info.exc # "" THEN [Raised(file_info.exc) EXCEPT !.path = "info_raised"]
    ELSE process_file_extracted(file_info, extract_price_data(df))

\* process_file after extract_all_info_from_file: the manufacturer, if given
\* (<<>> is None or '') and not zix dong shi bie (U+81EA U+52A8 U+8BC6
\* U+522B), replaces the brand; then the extraction
process_file_info(df, file_info, manuf) ==
    IF file_info.exc # "" THEN [Raised(file_info.exc) EXCEPT !.path = "info_raised"]
    ELSE process_file_extracted(
             IF manuf # <<>> /\ manuf # <<"zix", "dong", "shi", "bie">>
             THEN [file_info EXCEPT !.brand = manuf] ELSE file_info,
             extract_price_data(df))

\* process_file after read_excel
process_file_read(source, source_filename, manuf) ==
    IF source.exc # "" THEN BareDataFrame("read_failed")
    ELSE process_file_info(source.df,
                           extract_all_info_from_file(source.df, source_filename),
                           manuf)

\* process_file(source_file_content, source_filename, manufacturer)
process_file(source_file_content, source_filename, manuf) ==
    process_file_read(read_excel(source_file_content), source_filename, manuf)

----------------------------------------------------------------------------
(* Specification SpecBatch: BatchProcessor.process_multiple_files          *)

\* the uploaded files: bytes that are no workbook, a workbook with a header
\* row and no data, one with two priced rows, and one with a single priced
\* row and no header row
FileContents ==
    { [readable |-> FALSE, sheet |-> <<>>],
      [readable |-> TRUE, sheet |-> <<HdrThree>>],
      [readable |-> TRUE, sheet |-> <<HdrThree, BlkFull \o BlkFullB, BlkInherit \o BlkEmpty>>],
      [readable |-> TRUE, sheet |-> <<BlkFull \o BlkEmpty>>] }

FileNames == {<<"a", ".", "x", "l", "s", "x">>, <<"b", ".", "x", "l", "s", "x">>}

UploadedFiles == { [name |-> n, content |-> c] : n \in FileNames, c \in FileContents }

InitBatch ==
    /\ PureIdle
    /\ FormatIdle
    /\ AppIdle
    /\ SeqIdle
    /\ files \in UNION { [1..n -> UploadedFiles] : n \in 0..MaxFiles }
    /\ fi = 1
    /\ results = EmptyDict
    /\ file_infos = EmptyDict
    /\ manufacturer = <<>>
    /\ grid = <<>>
    /\ pc = "batch"
    /\ si = 1
    /\ cls = ""
    /\ matched = NoMatch
    /\ invoked = <<>>
    /\ ret = NoRet
    /\ tcSelf = [i \in Instances |-> EmptyDict]

\* result_df, file_info = out  and the rest of the loop body.  Unpacking a
\* bare pd.DataFrame() iterates over its zero column labels and raises
\* ValueError; an exception leaves the loop and the call.
UnpackAndStore(source_file, out) ==
    /\ outs' = Append(outs, out)
    /\ CASE out.kind = "raise" ->
              /\ pc' = "raised"
              /\ ret' = Raise(out.exc)
              /\ UNCHANGED <<fi, results, file_infos>>
         [] out.kind = "DataFrame" ->
              /\ pc' = "raised"
              /\ ret' = Raise("ValueError")
              /\ UNCHANGED <<fi, results, file_infos>>
         [] out.kind = "tuple" ->
              /\ IF out.nrows > 0
                 THEN /\ results' = Put(results, source_file.name, out.table)
                      /\ file_infos' = Put(file_infos, source_file.name, out.file_info[1])
                 ELSE UNCHANGED <<results, file_infos>>
              /\ fi' = fi + 1
              /\ UNCHANGED <<pc, ret>>

\* one iteration of  for source_file in source_files
ProcessNextFile ==
    /\ pc = "batch"
    /\ fi <= Len(files)
    /\ UnpackAndStore(files[fi], process_file(files[fi].content, files[fi].name, manufacturer))
    /\ UNCHANGED <<files, manufacturer, grid, si, cls, matched, invoked, tcSelf, todo, fmtVars, appVars, pureVars>>

\* return results, file_infos
BatchReturn ==
    /\ pc = "batch"
    /\ fi > Len(files)
    /\ pc' = "done"
    /\ UNCHANGED <<files, manufacturer, fi, results, file_infos, grid, si, cls, matched, invoked,
                   ret, tcSelf, todo, outs, fmtVars, appVars, pureVars>>

NextBatch == ProcessNextFile \/ BatchReturn

SpecBatch == InitBatch /\ [][NextBatch]_vars

----------------------------------------------------------------------------
(* Properties of extract_price_data (specification Spec)                   *)

\* C1 (as claimed): total dispatch - for every grid extract_price_data
\* returns a (records, header labels) pair and never raises.
C1_TotalDispatch == pc = "done" => ret.exc = ""

\* the fixed priority order of the registry that the claims name
RegistryOrder == <<"ZhengdaGalvanizedStrategy", "FourColumnStrategy", "ThreeColumnStrategy">>

\* the position in RegistryOrder of the first strategy whose match is true
FirstMatching(df) ==
    CHOOSE i \in 1..Len(RegistryOrder) :
        /\ Match(RegistryOrder[i], df).is_match
        /\ \A j \in 1..(i - 1) : ~Match(RegistryOrder[j], df).is_match

\* C2: first-match-wins - extract_price_data returns exactly the result of
\* extract of the first strategy, in registry order, whose match is true,
\* called with the rows that match returned, and no other strategy's extract
\* is invoked.
C2_FirstMatchWins ==
    pc = "done" =>
        LET name == RegistryOrder[FirstMatching(grid)]
            m    == Match(name, grid)
        IN  /\ invoked = <<name>>
            /\ matched = m
            /\ ret = Extract(name, EmptyDict, grid, m.header_row, m.data_start_row).ret

\* C2 witness: the square/rect strategy was selected on a grid the generic
\* 3-column matcher accepts too, and its zero records were returned as they are
C2_Witness ==
    /\ pc = "done"
    /\ invoked = <<"FourColumnStrategy">>
    /\ ThreeColumnMatch(grid).is_match
    /\ ret.exc = ""
    /\ ret.records = <<>>

\* C3 (as claimed): every described strategy is reachable through the
\* registry - a grid whose header row holds the wall-thickness, weighed and
\* measured labels is extracted by the brand-block pipe strategy.
C3_PipeStrategyReachable ==
    (pc = "done" /\ HengwangPipeMatch(grid).is_match) => invoked = <<"HengwangPipeStrategy">>

----------------------------------------------------------------------------
(* Properties of the strategies (specification SpecStrategy)               *)

\* C4 (as claimed): extraction never raises past the strategy boundary - on
\* every grid on which a strategy's match returns (true, h, d), its
\* extract(grid, h, d) returns a (records, header labels) pair.
C4_ExtractNeverRaises == (pc = "done" /\ matched.is_match) => ret.exc = ""

\* no cell of the grid is a number
NoNumericCell(df) ==
    \A r \in 1..Len(df) : \A c \in 1..Len(df[r]) : ~IsNumber(df[r][c])

\* C6 (as claimed): zero-data scenario - on a grid with no numeric price
\* cell anywhere, a strategy's extract returns an empty record list and an
\* empty header-label list.
C6_ZeroData ==
    (pc = "done" /\ matched.is_match /\ ret.exc = "" /\ NoNumericCell(grid))
        => (ret.records = <<>> /\ ret.headers = <<>>)

\* C7 (as claimed): in the repeating-block strategies a block whose price
\* cell is not a number produces no record - every record's price is the
\* float parsed from a numeric cell, never the int 0 of the else branch.
C7_PriceParsedFromNumber ==
    (pc = "done" /\ cls \in {"ZhengdaGalvanizedStrategy", "FourColumnStrategy",
                            "ThreeColumnStrategy"})
        => \A i \in 1..Len(ret.records) : ret.records[i].price # <<"0">>

\* The spec values in effect at data row r, block anchor c, as C9 states them:
\* the cell's own values or, when the cell holds no spec token, those of the
\* nearest row above (from the first data row d on) whose cell in column c
\* holds one; none when there is no such row.
SpecsInEffect(df, d, r, c) ==
    LET own   == parse_spec_cell(Cell(Row(df, r), c))
        above == { q \in d..(r - 1) : parse_spec_cell(Cell(Row(df, q), c)) # <<>> }
    IN  IF own # <<>> THEN own
        ELSE IF above = {} THEN <<>>
        ELSE parse_spec_cell(Cell(Row(df, CHOOSE q \in above : \A x \in above : x <= q), c))

\* the records C9 expects of block c of row r: one per spec value in effect,
\* when thickness and price are not blank
ExpectedBlock(df, d, r, c) ==
    LET specs     == SpecsInEffect(df, d, r, c)
        thickness == Cell(Row(df, r), c + 1)
        price     == Cell(Row(df, r), c + 2)
    IN  IF notna(thickness) /\ notna(price)
        THEN [i \in 1..Len(specs) |->
                 RawRecord(specs[i], format_thickness(thickness.s), PriceOf(price))]
        ELSE <<>>

RECURSIVE ExpectedRow(_, _, _, _)
ExpectedRow(df, d, r, cols) ==
    IF cols = <<>> THEN <<>>
    ELSE ExpectedBlock(df, d, r, Head(cols)) \o ExpectedRow(df, d, r, Tail(cols))

RECURSIVE ExpectedRows(_, _, _)
ExpectedRows(df, d, r) ==
    IF r >= NRows(df) THEN <<>>
    ELSE ExpectedRow(df, d, r, Range(0, NCols(df) - 2, 3)) \o ExpectedRows(df, d, r + 1)

\* C9: spec inheritance in the generic 3-column strategy - a block whose spec
\* cell is blank (holds no spec token), with non-blank thickness and price,
\* emits one record per spec value of the nearest preceding data row whose
\* cell at the same anchor was not blank, never a spec seen at another
\* anchor, and nothing when no earlier row of the call had one at that anchor;
\* the records of the call are those of its blocks, row by row.
C9_SpecInheritance ==
    (pc = "done" /\ cls = "ThreeColumnStrategy" /\ ret.exc = "")
        => ret.records = ExpectedRows(grid, matched.data_start_row, matched.data_start_row)

\* C9 witness: a call returned records for a block that inherited its spec
\* from a row above, on a grid where another anchor has a blank spec cell with
\* thickness and price and nothing to inherit
C9_Witness ==
    /\ pc = "done"
    /\ cls = "ThreeColumnStrategy"
    /\ ret.exc = ""
    /\ LET d == matched.data_start_row
       IN  /\ \E r \in d..(NRows(grid) - 1) :
                /\ parse_spec_cell(Cell(Row(grid, r), 0)) = <<>>
                /\ ExpectedBlock(grid, d, r, 0) # <<>>
                /\ \E i \in 1..Len(ret.records) : ret.records[i] = ExpectedBlock(grid, d, r, 0)[1]
           /\ \E r \in d..(NRows(grid) - 1) :
                /\ notna(Cell(Row(grid, r), 4))
                /\ notna(Cell(Row(grid, r), 5))
                /\ SpecsInEffect(grid, d, r, 3) = <<>>
                /\ \E q \in d..(r - 1) : parse_spec_cell(Cell(Row(grid, q), 0)) # <<>>


----------------------------------------------------------------------------
(* Specification SpecFacade: ProductDataProcessor.process_file on one file *)

\* the title row above the header row: the product-type signature and what
\* else the metadata is read from
TitleTube ==
    <<Txt(<<"fang", "ju", "guan">>), Txt(<<"chang", "du", "6", "mi">>), Txt(KwWeighed),
      NaN, NaN, NaN>>
TitlePlate ==
    <<Txt(<<"ban", "cai">>), Txt(<<"pin", "pai", ":", "A", "B">>), Txt(<<"li", "lun">>),
      NaN, NaN, NaN>>
TitlePipe ==
    <<Txt(<<"re", "dux", "guan", "cai">>), NaN, NaN, NaN, NaN, NaN>>
TitleCoil ==
    <<Txt(<<"caix", "tu", "juan">>), Txt(<<"tang", "shan", "gang", "tie">>),
      Txt(<<"chang", "du">>), Txt(<<"6", "0", "0", "0", "m", "m">>), NaN, NaN>>
TitleZhengda ==
    <<Txt(<<"zheng", "da">>), Txt(<<"fang", " ", "ju", " ", "guan">>), NaN, NaN, NaN, NaN>>
TitleDots ==
    <<Txt(<<"fang", "ju", "guan">>), Txt(<<"chang", "du", ".", ".", "6", "mi">>),
      NaN, NaN, NaN, NaN>>

TitleRows == {TitleTube, TitlePlate, TitlePipe, TitleCoil, TitleZhengda, TitleDots}

\* data rows under HdrThree: "40*40 3 5200" alone, a rect tube with a
\* thickness range, a row of two blocks, a row that inherits its spec, a plate
\* with the larger dimension first, a two-spec cell, a text thickness
FacadeRows ==
    { BlkFull \o BlkEmpty,
      <<Txt(<<"6", "0", "*", "4", "0">>), ThickRange, Num(<<"5", "3", "0", "0">>)>> \o BlkEmpty,
      <<SpecA, Num(<<"4">>), PriceNum>> \o <<Txt(<<"6", "0", "*", "4", "0">>), ThickNum, PriceNum>>,
      <<NaN, ThickNum, Num(<<"5", "3", "0", "0">>)>> \o BlkEmpty,
      <<Txt(<<"1", "5", "0", "0", "*", "1", "2", "5", "0">>), ThickRange, PriceNum>> \o BlkFullB,
      <<SpecMulti, ThickNum, PriceNum>> \o BlkEmpty,
      <<Txt(<<"6", "0", "*", "4", "0">>), PriceText, PriceNum>>
          \o <<SpecA, Num(<<"4">>), Num(<<"5", "3", "0", "0">>)>> }

\* the workbooks: a title row or none, the header row, the data rows; and
\* bytes that are no workbook
FacadeContents ==
    {[readable |-> FALSE, sheet |-> <<>>]}
    \cup { [readable |-> TRUE, sheet |-> t \o <<HdrThree>> \o d] :
             t \in {<<>>} \cup { <<r>> : r \in TitleRows },
             d \in UNION { [1..n -> FacadeRows] : n \in 0..MaxFacadeRows } }

\* a.xlsx and leng zha.xlsx
FacadeNames ==
    { <<"a", ".", "x", "l", "s", "x">>,
      <<"leng", "zha", ".", "x", "l", "s", "x">> }

\* no manufacturer, the sentinel, and an gang (U+978D U+94A2)
Manufacturers == { <<>>, <<"zix", "dong", "shi", "bie">>, <<"an", "gang">> }

InitFacade ==
    /\ FormatIdle /\ SeqIdle /\ BatchIdle /\ CallIdle
    /\ AppIdle
    /\ callArg \in [content : FacadeContents, filename : FacadeNames,
                    manufacturer : Manufacturers]
    /\ callRes = NoRes

\* process_file(source_file_content, source_filename, manufacturer)
ProcessFile ==
    /\ callRes = NoRes
    /\ callRes' = process_file(callArg.content, callArg.filename, callArg.manufacturer)
    /\ UNCHANGED <<callArg, fmtVars, appVars, callVars, todo, outs, batchVars>>

NextFacade == ProcessFile

SpecFacade == InitFacade /\ [][NextFacade]_vars

----------------------------------------------------------------------------
(* Specification SpecInfo: extract_all_info_from_file called on a grid     *)

\* rows of six cells: one note keyword, the text bei zhu yi that holds the two
\* keywords bei zhu and zhu yi, two keywords in two cells, a data row without
\* a keyword, and a keyword after a blank
NoteRows ==
    { <<Txt(<<"shuo", "mingx", ":", "A">>), NaN, NaN, NaN, NaN, NaN>>,
      <<Txt(<<"bei", "zhu", "yix">>), NaN, NaN, NaN, NaN, NaN>>,
      <<Txt(<<"ti", "shix">>), Txt(<<"yao", "qiu">>), NaN, NaN, NaN, NaN>>,
      BlkFull \o BlkEmpty,
      <<Txt(<<" ", "bei", "zhu">>), NaN, NaN, NaN, NaN, NaN>> }

\* the grids: no blank row, NoteScan - 1 or NoteScan blank rows, then at most
\* MaxNoteRows rows of NoteRows
NoteGrids ==
    { Pad(k) \o d : k \in {0, NoteScan - 1, NoteScan},
                    d \in UNION { [1..n -> NoteRows] : n \in 0..MaxNoteRows } }

InitInfo ==
    /\ FormatIdle /\ SeqIdle /\ BatchIdle /\ CallIdle
    /\ AppIdle
    /\ callArg \in [df : NoteGrids, filename : FacadeNames]
    /\ callRes = NoRes

\* extract_all_info_from_file(df, filename)
ExtractAllInfo ==
    /\ callRes = NoRes
    /\ callRes' = extract_all_info_from_file(callArg.df, callArg.filename)
    /\ UNCHANGED <<callArg, fmtVars, appVars, callVars, todo, outs, batchVars>>

NextInfo == ExtractAllInfo

SpecInfo == InitInfo /\ [][NextInfo]_vars

----------------------------------------------------------------------------
(* Specification SpecTemplate: create_template_dataframe called on the     *)
(* records a strategy extracted and the metadata of a document             *)

\* the records of a grid under the header row of FuShunDeStrategy
FuShunDeRecordsOf(df) ==
    FuShunDeExtract(df, FuShunDeMatch(df).header_row, FuShunDeMatch(df).data_start_row).records

\* a title row with the brand-triad name zheng da re dux guan in a plate
\* document
TitleZhengdaPlate ==
    <<Txt(KwZhengda \o <<"guan">>), Txt(<<"ban", "cai">>), NaN, NaN, NaN, NaN>>

\* the data rows under gui ge / hou du / jia ge: those of the workbooks and a
\* pipe row whose spec, bore*wall "D15*2", does not begin with a number
TemplateRows ==
    FacadeRows \cup { <<Txt(<<"D", "1", "5", "*", "2">>), ThickNum, PriceNum>> \o BlkEmpty }

\* the raw record lists: what FuShunDeStrategy extracts from its header row
\* and at most MaxTemplateRows data rows, and what the registry extracts from
\* the header row gui ge / hou du / jia ge and as many rows
TemplateSources ==
    { FuShunDeRecordsOf(<<HdrFuShunDe>> \o d) :
        d \in UNION { [1..n -> FuShunDeDataRows] : n \in 0..MaxTemplateRows } }
    \cup { extract_price_data(<<HdrThree>> \o d).records :
             d \in UNION { [1..n -> TemplateRows] : n \in 0..MaxTemplateRows } }

\* the metadata of a.xlsx with each title row, and with none
TemplateInfos ==
    { extract_all_info_from_file(t \o <<HdrThree>>, <<"a", ".", "x", "l", "s", "x">>) :
        t \in {<<>>, <<TitleTube>>, <<TitlePlate>>, <<TitlePipe>>, <<TitleCoil>>,
               <<TitleZhengda>>, <<TitleZhengdaPlate>>} }

InitTemplate ==
    /\ FormatIdle /\ SeqIdle /\ BatchIdle /\ CallIdle
    /\ AppIdle
    /\ callArg \in [source_data : TemplateSources, file_info : TemplateInfos]
    /\ callRes = NoRes

\* create_template_dataframe(source_data, file_info, specs_analysis)
CreateTemplate ==
    /\ callRes = NoRes
    /\ callRes' = Ok(create_template_dataframe(callArg.source_data, callArg.file_info))
    /\ UNCHANGED <<callArg, fmtVars, appVars, callVars, todo, outs, batchVars>>

NextTemplate == CreateTemplate

SpecTemplate == InitTemplate /\ [][NextTemplate]_vars

----------------------------------------------------------------------------
(* Specification SpecApp: the wizard of render_extraction_tool (app.py)    *)

\* BatchProcessor.process_multiple_files as one call: the loop from position
\* i of source_files on, with the dictionaries res and infos built so far
RECURSIVE process_multiple_files_from(_, _, _, _, _)
\* the unpacking of out, what process_file returned for the file at i, and
\* the rest of the loop
process_multiple_files_store(source_files, i, res, infos, manuf, out) ==
    CASE out.kind = "raise" ->
           [exc |-> out.exc, results |-> res, file_infos |-> infos]
      [] out.kind = "DataFrame" ->
           [exc |-> "ValueError", results |-> res, file_infos |-> infos]
      [] out.kind = "tuple" ->
           IF out.nrows > 0
           THEN process_multiple_files_from(source_files, i + 1,
                    Put(res, source_files[i].name, out.table),
                    Put(infos, source_files[i].name, out.file_info[1]), manuf)
           ELSE process_multiple_files_from(source_files, i + 1, res, infos, manuf)

process_multiple_files_from(source_files, i, res, infos, manuf) ==
    IF i > Len(source_files)
    THEN [exc |-> "", results |-> res, file_infos |-> infos]
    ELSE process_multiple_files_store(source_files, i, res, infos, manuf,
             process_file(source_files[i].content, source_files[i].name, manuf))

\* process_multiple_files(source_files, manufacturer)
process_multiple_files(source_files, manuf) ==
    process_multiple_files_from(source_files, 1, EmptyDict, EmptyDict, manuf)

\* the first option of the manufacturer selectbox, qing xuan ze changx jiax
\* (U+8BF7 U+9009 U+62E9 U+5382 U+5BB6)
ManufacturerPlaceholder == <<"qing", "xuan", "ze", "changx", "jiax">>

\* the options of the selectbox: the placeholder, zheng da zhix guan and heng
\* wang (U+4EA8 U+65FA); the two further options of the list are text other
\* than the placeholder like these two
ManufacturerOptions ==
    { ManufacturerPlaceholder, <<"zheng", "da", "zhix", "guan">>, <<"heng", "wang">> }

\* the most files the upload page lets through
UploadLimit == 5

\* the files a user uploads: a tube price list a.xlsx, a plate price list
\* b.xlsx, and bytes that are no workbook under the name a.xlsx
FileTube ==
    [name |-> <<"a", ".", "x", "l", "s", "x">>,
     content |-> [readable |-> TRUE, sheet |-> <<TitleTube, HdrThree, BlkFull \o BlkEmpty>>]]

FilePlate ==
    [name |-> <<"b", ".", "x", "l", "s", "x">>,
     content |-> [readable |-> TRUE,
                  sheet |-> <<TitlePlate, HdrThree, BlkFull \o BlkFullB>>]]

FileBroken ==
    [name |-> <<"a", ".", "x", "l", "s", "x">>, content |-> [readable |-> FALSE, sheet |-> <<>>]]

\* what the uploader can hold: nothing, one to UploadLimit files, one more
\* than that, and lists with a file that cannot be read
Uploads ==
    { <<>>, <<FileTube>>, <<FilePlate>>, <<FileTube, FilePlate>>, <<FileBroken>>,
      <<FilePlate, FileBroken>>,
      [i \in 1..UploadLimit |-> IF i = 1 THEN FileTube ELSE FilePlate],
      [i \in 1..(UploadLimit + 1) |-> IF i = 1 THEN FileTube ELSE FilePlate] }

\* the product types mapping_info has an entry for
MappedTypes ==
    { <<"fang", "ju", "guan">>, <<"ban", "cai">>, <<"xing", "cai">>, <<"guan", "cai">>,
      <<"kuang", "yong", "pin">>, <<"bangx", "cai">>, <<"caix", "tu", "juan">> }

\* the spec columns of the table that the model carries (gui ge 1 to 4)
SpecColumns == {"spec1", "spec2", "spec3", "spec4"}

\* df[spec_key].replace('', pd.NA).isna().mean() > 0.8
EmptyRatioHigh(df, key) ==
    5 * Cardinality({ i \in 1..Len(df) : df[i][key] = <<>> }) > 4 * Len(df)

\* the columns the page offers a fill input for: none without a mapping of
\* the product type
FillableColumns(df, file_info) ==
    IF Get(file_info, "product_type", <<>>) \in MappedTypes
    THEN { key \in SpecColumns : EmptyRatioHigh(df, key) }
    ELSE {}

\* df[key] = df[key].replace('', val).fillna(val) for every key of fill_values
ApplyFillValues(df, fill_values) ==
    [i \in 1..Len(df) |->
        [f \in DOMAIN df[i] |->
            IF f \in DOMAIN fill_values /\ df[i][f] = <<>> THEN fill_values[f] ELSE df[i][f]]]

\* the text typed into a fill input and the text typed into a cell of the
\* data editor; the column the model edits
FillTexts == { <<"6", "0", "0", "0">> }

EditTexts == { <<"7">> }

EditColumns == {"spec3"}

\* the session state after lines 11-18, the uploader empty, the selectbox on
\* its first option
InitApp ==
    /\ FormatIdle /\ SeqIdle /\ CallIdle /\ PureIdle
    /\ files = <<>>
    /\ manufacturer = ManufacturerPlaceholder
    /\ fi = 1
    /\ results = EmptyDict
    /\ file_infos = EmptyDict
    /\ session_state = [results |-> EmptyDict, file_infos |-> EmptyDict, step |-> 1]
    /\ clicked = ""

\* st.rerun() and the next run of the script: the file uploader is a widget
\* of step 1 only, and Streamlit drops the value of a widget that a run does
\* not render
Rerun(next_state) ==
    /\ session_state' = next_state
    /\ files' = IF next_state.step = 1 /\ session_state.step = 1 THEN files ELSE <<>>

\* the user puts files into the uploader of step 1
ChooseFiles ==
    /\ session_state.step = 1
    /\ \E fs \in Uploads : files' = fs
    /\ clicked' = ""
    /\ outs' = <<>>
    /\ UNCHANGED <<session_state, manufacturer, fi, results, file_infos, todo, fmtVars,
                   callVars, pureVars>>

\* the user picks an option of the selectbox of the sidebar
ChooseManufacturer ==
    /\ \E m \in ManufacturerOptions : manufacturer' = m
    /\ clicked' = ""
    /\ outs' = <<>>
    /\ UNCHANGED <<session_state, files, fi, results, file_infos, todo, fmtVars,
                   callVars, pureVars>>

\* the reset button of the sidebar
ResetAll ==
    /\ Rerun([results |-> EmptyDict, file_infos |-> EmptyDict, step |-> 1])
    /\ clicked' = "reset"
    /\ outs' = <<>>
    /\ UNCHANGED <<manufacturer, fi, results, file_infos, todo, fmtVars, callVars, pureVars>>

\* the start button is on the page: files are uploaded, at most UploadLimit
ExtractButtonAnyCount(uploaded_files) == uploaded_files # <<>>

ExtractButtonShown(uploaded_files) ==
    uploaded_files # <<>> /\ Len(uploaded_files) <= UploadLimit

\* the session after process_multiple_files returned out: results and
\* file_infos stored, step 2 when results is not empty
AfterExtraction(out) ==
    [results |-> out.results, file_infos |-> out.file_infos,
     step |-> IF out.results # EmptyDict THEN 2 ELSE 1]

\* lines 119-127 with out, what process_multiple_files came to: an
\* exception that leaves the call ends the run with the session as it was
StoreExtraction(out) ==
    /\ outs' = <<out>>
    /\ IF out.exc # "" THEN UNCHANGED <<session_state, files>>
       ELSE Rerun(AfterExtraction(out))

\* the start button of step 1.  outs holds the outcome of the call of
\* process_multiple_files made in this run, if one was made.
StartExtraction ==
    /\ session_state.step = 1
    /\ ExtractButtonShown(files)
    /\ clicked' = "start"
    /\ IF manufacturer = ManufacturerPlaceholder
       THEN /\ outs' = <<>>
            /\ UNCHANGED <<session_state, files>>
       ELSE StoreExtraction(process_multiple_files(files, manufacturer))
    /\ UNCHANGED <<manufacturer, fi, results, file_infos, todo, fmtVars, callVars, pureVars>>

\* the button under the fill inputs of step 2, for the selected file and the
\* values typed into some of the inputs
ApplyFillTo(selected_file, df, file_info) ==
    \E keys \in SUBSET FillableColumns(df, file_info) \ {{}} :
        \E fill_values \in [keys -> FillTexts] :
            session_state' =
                [session_state EXCEPT
                    !.results = Put(@, selected_file, ApplyFillValues(df, fill_values))]

ApplyFill ==
    /\ session_state.step = 2
    /\ \E selected_file \in DOMAIN session_state.results :
          ApplyFillTo(selected_file, session_state.results[selected_file],
                      Get(session_state.file_infos, selected_file, EmptyDict))
    /\ clicked' = "fill"
    /\ outs' = <<>>
    /\ UNCHANGED <<files, manufacturer, fi, results, file_infos, todo, fmtVars, callVars,
                   pureVars>>

\* an edit of one cell in the data editor of step 2: the edited table
\* replaces the table of the selected file
EditTableOf(selected_file, df) ==
    \E i \in 1..Len(df), col \in EditColumns, text \in EditTexts :
        /\ df[i][col] # text
        /\ session_state' =
               [session_state EXCEPT
                   !.results = Put(@, selected_file,
                                   [df EXCEPT ![i] = [f \in DOMAIN df[i] |->
                                       IF f = col THEN text ELSE df[i][f]]])]

EditTable ==
    /\ session_state.step = 2
    /\ \E selected_file \in DOMAIN session_state.results :
          EditTableOf(selected_file, session_state.results[selected_file])
    /\ clicked' = ""
    /\ outs' = <<>>
    /\ UNCHANGED <<files, manufacturer, fi, results, file_infos, todo, fmtVars, callVars,
                   pureVars>>

\* the back button of step 2: with results on the page it empties results,
\* on the page without results it only goes back
ReturnToUpload ==
    /\ session_state.step = 2
    /\ IF session_state.results # EmptyDict
       THEN Rerun([session_state EXCEPT !.step = 1, !.results = EmptyDict])
       ELSE Rerun([session_state EXCEPT !.step = 1])
    /\ clicked' = "back"
    /\ outs' = <<>>
    /\ UNCHANGED <<manufacturer, fi, results, file_infos, todo, fmtVars, callVars, pureVars>>

\* the confirm button of step 2, on the page only with results
Confirm ==
    /\ session_state.step = 2
    /\ session_state.results # EmptyDict
    /\ Rerun([session_state EXCEPT !.step = 3])
    /\ clicked' = "confirm"
    /\ outs' = <<>>
    /\ UNCHANGED <<manufacturer, fi, results, file_infos, todo, fmtVars, callVars, pureVars>>

\* the button of step 3 that starts a new task
StartNewTask ==
    /\ session_state.step = 3
    /\ Rerun([results |-> EmptyDict, file_infos |-> EmptyDict, step |-> 1])
    /\ clicked' = "new_task"
    /\ outs' = <<>>
    /\ UNCHANGED <<manufacturer, fi, results, file_infos, todo, fmtVars, callVars, pureVars>>

NextApp ==
    \/ ChooseFiles
    \/ ChooseManufacturer
    \/ ResetAll
    \/ StartExtraction
    \/ ApplyFill
    \/ EditTable
    \/ ReturnToUpload
    \/ Confirm
    \/ StartNewTask

SpecApp == InitApp /\ [][NextApp]_vars

----------------------------------------------------------------------------
(* Properties of process_file and the batch (specification SpecBatch)      *)

\* C5 (as claimed): process_file returns a two-component result (table,
\* metadata) on every path - unreadable file, zero extracted records and
\* success - and process_multiple_files, which unpacks the pair, does not
\* fail on such a file and goes on to the remaining files.
C5_PairOnEveryPath ==
    /\ \A i \in 1..Len(outs) :
          outs[i].path \in {"read_failed", "no_price_data", "success"}
              => outs[i].kind = "tuple"
    /\ pc = "raised" => outs[Len(outs)].path = "extract_raised"

----------------------------------------------------------------------------
(* Properties of the call sequences (specification SpecScoping)            *)

\* the spec tokens the cells of a grid hold
SpecTokensOf(df) ==
    { parse_spec_cell(df[r][c])[k] :
        <<r, c, k>> \in { t \in (1..Len(df)) \X (1..6) \X (1..2) :
                            /\ t[2] <= Len(df[t[1]])
                            /\ t[3] <= Len(parse_spec_cell(df[t[1]][t[2]])) } }

\* C8: inheritance scoping - extract on grid A and then on grid B with the
\* strategy object the registry holds yields for B exactly what a fresh
\* object yields for B, and for ThreeColumnStrategy every spec in B's records
\* is a spec token of a cell of B, none is a last-seen spec of A.
C8_InheritanceScoping ==
    pc = "done" =>
        /\ outs[2] = ret
        /\ cls = "ThreeColumnStrategy" =>
              \A i \in 1..Len(outs[2].records) :
                  outs[2].records[i].spec \in SpecTokensOf(todo[2])

\* C8 witness: the registry's ThreeColumnStrategy object was called on a grid
\* A whose last row left a spec at anchor 0 and then on a different grid B
\* whose first data row has a blank spec cell at anchor 0 with thickness and
\* price, and nothing of B to inherit
C8_Witness ==
    /\ pc = "done"
    /\ cls = "ThreeColumnStrategy"
    /\ todo[1] # todo[2]
    /\ outs[1].exc = ""
    /\ outs[1].records # <<>>
    /\ NRows(todo[1]) > 1
    /\ parse_spec_cell(Cell(Row(todo[1], NRows(todo[1]) - 1), 0)) # <<>>
    /\ NRows(todo[2]) > 1
    /\ Cell(Row(todo[2], 1), 0) = NaN
    /\ notna(Cell(Row(todo[2], 1), 1))
    /\ notna(Cell(Row(todo[2], 1), 2))
    /\ outs[2].exc = ""

----------------------------------------------------------------------------
(* Properties of format_thickness (specification SpecFormat)               *)

\* C10 (as claimed): thickness formatting is idempotent -
\* format_thickness(format_thickness(t)) = format_thickness(t) for every
\* token t, with "3" -> "3.0", "3.0" -> "3.0" and "2.5-3" -> "2.5-3.0".
C10_Idempotent ==
    /\ Len(ftHist) >= 2 => ftHist[2] = ftHist[1]
    /\ (Len(ftHist) >= 1 /\ ftIn = <<"3">>) => ftHist[1] = <<"3", ".", "0">>
    /\ (Len(ftHist) >= 1 /\ ftIn = <<"3", ".", "0">>) => ftHist[1] = <<"3", ".", "0">>
    /\ (Len(ftHist) >= 1 /\ ftIn = <<"2", ".", "5", "-", "3">>)
          => ftHist[1] = <<"2", ".", "5", "-", "3", ".", "0">>

----------------------------------------------------------------------------
\* Length normalisation as the specification states it: the number followed
\* by a metre unit is number * 1000, by a millimetre unit the number itself,
\* a bare number below 20 is number * 1000 and a bare number of 20 or more
\* is itself, each as an integer string.
ClaimedLength(number, unit) ==
    LET v == ParseFloat(number)
    IN  IF unit \in {UnitMetre, <<"m">>} THEN IntTrunc(Times1000(v))
        ELSE IF unit \in {<<"m", "m">>, UnitMillimetre} THEN IntTrunc(v)
        ELSE IF LessThan20(v) THEN IntTrunc(Times1000(v))
        ELSE IntTrunc(v)

\* the texts of the claim: a decimal number, then nothing or one unit
IsLengthText(number, unit) ==
    /\ number # <<>>
    /\ ParseFloat(number).ok
    /\ unit \in {<<>>, UnitMetre, <<"m">>, <<"m", "m">>, UnitMillimetre}

\* C12: normalize_length maps a number with a metre unit to number * 1000, a
\* number with a millimetre unit (mm or hao-mi) to the same number, a bare
\* number below 20 to number * 1000 and a bare number of 20 or more to
\* itself, each as an integer string ("6000mm" gives "6000").
C12_LengthNormalized ==
    callRes # NoRes =>
        LET number == TakeWhile(callArg, Digits \cup {"."})
            unit   == Drop(callArg, Len(number))
        IN  IsLengthText(number, unit) =>
                callRes = Ok(ClaimedLength(number, unit))

----------------------------------------------------------------------------
\* the cell text after the spaces around "*" are removed and "<br>" is read
\* as a line break
SeparatedText(cell) == ReplaceBr(StarTrimLeft(cell.s))

\* the positions i..j of the maximal separator-free runs of a text
TokenRuns(text) ==
    { r \in (1..Len(text)) \X (1..Len(text)) :
        /\ r[1] <= r[2]
        /\ \A i \in r[1]..r[2] : text[i] \notin SpecSeparators
        /\ r[1] = 1 \/ text[r[1] - 1] \in SpecSeparators
        /\ r[2] = Len(text) \/ text[r[2] + 1] \in SpecSeparators }

\* where a token first starts in the text
FirstStart(text, tok) ==
    CHOOSE i \in 1..Len(text) :
        /\ \E r \in TokenRuns(text) : r[1] = i /\ SubSeq(text, r[1], r[2]) = tok
        /\ \A r \in TokenRuns(text) :
               SubSeq(text, r[1], r[2]) = tok => r[1] >= i

\* C13: parse_spec_cell returns the non-empty tokens obtained by splitting
\* the cell text on line breaks, "<br>", commas, wide commas and whitespace
\* (after removing whitespace around "*"), each distinct token exactly once,
\* in order of first occurrence; a NaN cell gives the empty list, and
\* "30*30, 40*40\n50*50" gives ["30*30", "40*40", "50*50"].
C13_SpecCellParse ==
    callRes # NoRes /\ callArg \in SpecCells =>
        LET toks == callRes.val
            text == SeparatedText(callArg)
        IN  /\ callRes.exc = ""
            /\ ~notna(callArg) => toks = <<>>
            /\ notna(callArg) =>
                 /\ { toks[i] : i \in 1..Len(toks) }
                      = { SubSeq(text, r[1], r[2]) : r \in TokenRuns(text) }
                 /\ \A i, j \in 1..Len(toks) : i < j =>
                        /\ toks[i] # toks[j]
                        /\ FirstStart(text, toks[i]) < FirstStart(text, toks[j])
            /\ callArg = Txt(<<"3", "0", "*", "3", "0", ",", " ", "4", "0", "*",
                               "4", "0", "NL", "5", "0", "*", "5", "0">>)
                 => toks = << <<"3", "0", "*", "3", "0">>,
                              <<"4", "0", "*", "4", "0">>,
                              <<"5", "0", "*", "5", "0">> >>

\* the cell "30 * 30 30*30", with spaces around "*" and a repeated token, has
\* been parsed into its one distinct token
C13_Witness ==
    /\ callArg = Txt(<<"3", "0", " ", "*", " ", "3", "0", " ",
                       "3", "0", "*", "3", "0">>)
    /\ callRes = Ok(<< <<"3", "0", "*", "3", "0">> >>)

----------------------------------------------------------------------------
\* C11: in every raw record emitted by any strategy the thickness field is
\* either empty or has each "-"-separated numeric component that is integral
\* rendered with an explicit decimal point; a bare integer such as "3" never
\* appears as a thickness.
C11_LossFreeThickness ==
    pc = "done" /\ ret.exc = "" =>
        \A i \in 1..Len(ret.records) :
            LET parts == SplitChars(ret.records[i].thickness, DashChars)
            IN  \A j \in 1..Len(parts) :
                    LET val == ParseFloat(Strip(parts[j]))
                    IN  val.ok /\ val.kind = "fin" /\ IsInteger(val)
                            => Contains(parts[j], <<".">>)

----------------------------------------------------------------------------
(* Properties of process_file (specification SpecFacade)                   *)

\* the raw records of the file handed to process_file, and the template
\* rows made of them, before the sort
FacadeRaw == extract_price_data(callArg.content.sheet).records

FacadeTemplate == create_template_dataframe(FacadeRaw, callRes.file_info[1])

\* the rank of x by first appearance in the sequence xs
RankIn(xs, x) ==
    LET first == CHOOSE j \in 1..Len(xs) : xs[j] = x /\ \A m \in 1..(j - 1) : xs[m] # x
    IN  Cardinality({ xs[m] : m \in 1..(first - 1) })

\* the sort key of a record r of the rows u: (rank of the trimmed name, rank
\* of the trimmed model, value of the first segment of spec1)
ClaimedKey(u, r) ==
    <<RankIn([m \in 1..Len(u) |-> Strip(u[m].name)], Strip(r.name)),
      RankIn([m \in 1..Len(u) |-> Strip(u[m].model)], Strip(r.model)),
      get_spec1_value(r.spec1)>>

\* lexicographic order of two such keys
ClaimedBefore(a, b) ==
    \/ a[1] < b[1]
    \/ a[1] = b[1] /\ a[2] < b[2]
    \/ a[1] = b[1] /\ a[2] = b[2] /\ FloatLess(a[3], b[3])

\* C14: after the sort of process_file the canonical records are in
\* ascending lexicographic order of (rank of the trimmed name by first
\* appearance, rank of the trimmed model by first appearance, numeric value
\* of the first dash segment of spec1, unparsable = 0.0), and the records
\* equal on all three keys keep their original relative order.
C14_DeterministicSort ==
    callRes # NoRes /\ callRes.kind = "tuple" =>
        LET t == callRes.table
            u == FacadeTemplate
        IN  /\ Len(t) = Len(u)
            /\ \A p \in 1..Len(t) : \E q \in 1..Len(u) : t[p] = u[q]
            /\ \A p \in 1..(Len(t) - 1) :
                   ~ClaimedBefore(ClaimedKey(u, t[p + 1]), ClaimedKey(u, t[p]))
            /\ \A q \in 1..Len(u) :
                   SelectSeq(t, LAMBDA r : ClaimedKey(u, r) = ClaimedKey(u, u[q]))
                     = SelectSeq(u, LAMBDA r : ClaimedKey(u, r) = ClaimedKey(u, u[q]))

\* the example of the claim with A = hei fang guan, X = 40*40, B = hei ju
\* guan, Y = 60*40: the rows (A, X, 4.0), (B, Y, 3.0), (A, X, 3.0) came out
\* as (A, X, 3.0), (A, X, 4.0), (B, Y, 3.0)
C14_Witness ==
    /\ callRes # NoRes
    /\ callRes.kind = "tuple"
    /\ [i \in 1..Len(FacadeTemplate) |->
           <<FacadeTemplate[i].name, FacadeTemplate[i].model, FacadeTemplate[i].spec1>>]
         = << <<<<"hei", "fang", "guan">>, SpecA.s, <<"4", ".", "0">>>>,
              <<<<"hei", "ju", "guan">>, <<"6", "0", "*", "4", "0">>, <<"3", ".", "0">>>>,
              <<<<"hei", "fang", "guan">>, SpecA.s, <<"3", ".", "0">>>> >>
    /\ [i \in 1..Len(callRes.table) |->
           <<callRes.table[i].name, callRes.table[i].model, callRes.table[i].spec1>>]
         = << <<<<"hei", "fang", "guan">>, SpecA.s, <<"3", ".", "0">>>>,
              <<<<"hei", "fang", "guan">>, SpecA.s, <<"4", ".", "0">>>>,
              <<<<"hei", "ju", "guan">>, <<"6", "0", "*", "4", "0">>, <<"3", ".", "0">>>> >>

\* the rows of the sheet below its header row (the first row holding gui ge)
FacadeDataRows ==
    LET sheet == callArg.content.sheet
        h == CHOOSE i \in 1..Len(sheet) : sheet[i] = HdrThree
    IN  SubSeq(sheet, h + 1, Len(sheet))

\* the row holds spec, thickness and price in its first 3-column block, the
\* spec cell being one token, and nothing in the other block
OneBlockRow(row) ==
    /\ row[1].t # "nan" /\ row[2].t # "nan" /\ row[3].t # "nan"
    /\ parse_spec_cell(row[1]) = <<row[1].s>>
    /\ \A c \in 4..Len(row) : row[c].t = "nan"

\* the number of positions of xs that hold x
Occurrences(xs, x) == Cardinality({ i \in 1..Len(xs) : xs[i] = x })

\* type, model, spec1, spec2 and unit of the record claimed for a data row
ClaimedTubeRecord(row, length) ==
    << <<"fang", "ju", "guan">>, row[1].s, format_thickness(row[2].s), length, <<"jianx">> >>

\* C15 (as claimed): a readable workbook whose grid carries the product-type
\* signature fang ju guan (U+65B9 U+77E9 U+7BA1), whose header row is gui ge /
\* hou du / jia ge and whose data rows each hold spec s, thickness t and price
\* p in one 3-column block comes back from process_file as one record per data
\* row, with type fang ju guan, model s, spec1 format_thickness(t), spec2 the
\* detected length and unit jian
C15_SquareTubeEndToEnd ==
    ( /\ callRes # NoRes
      /\ callArg.content.readable
      /\ \E r \in 1..Len(callArg.content.sheet) : callArg.content.sheet[r] = HdrThree
      /\ DetectProductType(to_string(callArg.content.sheet)) = <<"fang", "ju", "guan">>
      /\ FacadeDataRows # <<>>
      /\ \A i \in 1..Len(FacadeDataRows) : OneBlockRow(FacadeDataRows[i]) )
    => /\ callRes.kind = "tuple"
       /\ Len(callRes.table) = Len(FacadeDataRows)
       /\ LET t == callRes.table
              got == [i \in 1..Len(t) |->
                        <<t[i].type, t[i].model, t[i].spec1, t[i].spec2, t[i].unit>>]
              want == [i \in 1..Len(FacadeDataRows) |->
                        ClaimedTubeRecord(FacadeDataRows[i], callRes.file_info[1].length)]
          IN  \A i \in 1..Len(want) : Occurrences(got, want[i]) = Occurrences(want, want[i])

\* the brand claimed for the finished call: the manufacturer when one is given
\* and is not the sentinel, else the brand detected in the grid and file name
ClaimedBrand ==
    IF callArg.manufacturer \notin { <<>>, <<"zix", "dong", "shi", "bie">> }
    THEN callArg.manufacturer
    ELSE DetectBrand(to_string(callArg.content.sheet), callArg.filename)

\* C16: in the pair process_file returns, the brand of the metadata and the
\* brand of every record are the manufacturer handed in when it is non-empty
\* and not zi dong shi bie, whatever brand the grid shows; they are the
\* detected brand when the manufacturer is absent or the sentinel
C16_ManufacturerOverride ==
    callRes # NoRes /\ callRes.kind = "tuple" =>
        /\ callRes.file_info[1].brand = ClaimedBrand
        /\ \A i \in 1..Len(callRes.table) : callRes.table[i].brand = ClaimedBrand

\* a workbook whose grid shows the brand tang shan gang tie was processed with
\* the manufacturer an gang, and records came back
C16_Witness ==
    /\ callRes # NoRes
    /\ callRes.kind = "tuple"
    /\ callArg.manufacturer = <<"an", "gang">>
    /\ DetectBrand(to_string(callArg.content.sheet), callArg.filename)
         = <<"tang", "shan", "gang", "tie">>
    /\ Len(callRes.table) = 2
    /\ \A i \in 1..2 : callRes.table[i].brand = <<"an", "gang">>

----------------------------------------------------------------------------
(* Properties of create_template_dataframe (specification SpecTemplate)    *)

\* the product type claimed for a raw record: its own when the strategy
\* attached one, else the one of the metadata
ClaimedType(item, file_info) ==
    IF "type" \in DOMAIN item /\ item.type # <<>> THEN item.type
    ELSE file_info.product_type

\* C17 (as claimed): the type of each template record, and the mapping table
\* that fills its spec1..spec4 and unit, is the raw record's own type when the
\* strategy attached one, and the product type of the metadata only otherwise
C17_RecordTypeOverride ==
    callRes # NoRes =>
        \A i \in 1..Len(callArg.source_data) :
            LET item   == callArg.source_data[i]
                p_type == ClaimedType(item, callArg.file_info)
                fields == SpecFields(p_type, item, callArg.file_info, DigitRuns(item.spec))
                got    == callRes.val[i]
            IN  /\ got.type = p_type
                /\ [spec1 |-> got.spec1, spec2 |-> got.spec2, spec3 |-> got.spec3,
                    spec4 |-> got.spec4, unit |-> got.unit] = fields

----------------------------------------------------------------------------
(* Properties of the template records of process_file (specification       *)
(* SpecFacade)                                                             *)

\* the table returned holds the records of the template, each as often
SameRecords(t, u) ==
    /\ Len(t) = Len(u)
    /\ \A i \in 1..Len(u) : Occurrences(t, u[i]) = Occurrences(u, u[i])

\* the name claimed for a raw spec that begins with the dimensions a*b
ClaimedName(dims, file_info) ==
    LET suffix == IF DigitsToNat(dims[1]) = DigitsToNat(dims[2])
                  THEN <<"fang", "guan">> ELSE <<"ju", "guan">>
        base   == file_info.product_name
    IN  IF /\ file_info.product_type = <<"guan", "cai">>
           /\ \/ Contains(base, <<"re", "dux">>)
              \/ Contains(base, <<"dux", "xin">>)
        THEN <<"dux", "xin", "guan">>
        ELSE IF base = <<"hei">> THEN <<"hei">> \o suffix
        ELSE base \o suffix

\* C18: in the pair process_file returns, the record of a raw spec that begins
\* with two numeric dimensions a*b is named by the base name of the metadata
\* followed by fang guan (U+65B9 U+7BA1) when a = b and by ju guan (U+77E9
\* U+7BA1) when a # b (hei fang guan / hei ju guan for the base name hei),
\* except in a document of type guan cai whose name contains re du or du xin,
\* where the name is du xin guan whatever the shape
C18_ShapeSuffixName ==
    callRes # NoRes /\ callRes.kind = "tuple" =>
        /\ SameRecords(callRes.table, FacadeTemplate)
        /\ \A i \in 1..Len(FacadeRaw) :
               DimensionMatch(FacadeRaw[i].spec) # <<>> =>
                   FacadeTemplate[i].name
                     = ClaimedName(DimensionMatch(FacadeRaw[i].spec), callRes.file_info[1])

\* a square/rect document gave a record hei fang guan for 40*40 and a record
\* hei ju guan for 60*40
C18_Witness ==
    /\ callRes # NoRes
    /\ callRes.kind = "tuple"
    /\ \E i, j \in 1..Len(callRes.table) :
          /\ callRes.table[i].model = <<"4", "0", "*", "4", "0">>
          /\ callRes.table[i].name = <<"hei", "fang", "guan">>
          /\ callRes.table[j].model = <<"6", "0", "*", "4", "0">>
          /\ callRes.table[j].name = <<"hei", "ju", "guan">>

\* C19: every record process_file returns has the unit kuai (U+5757) when its
\* type is ban cai or cai tu juan and the unit jian (U+4EF6) for every other
\* type, the empty one included; the unit of the metadata is always jian
C19_UnitByType ==
    callRes # NoRes /\ callRes.kind = "tuple" =>
        /\ callRes.file_info[1].unit = <<"jianx">>
        /\ \A i \in 1..Len(callRes.table) :
               callRes.table[i].unit
                 = IF callRes.table[i].type \in {<<"ban", "cai">>, <<"caix", "tu", "juan">>}
                   THEN <<"kuai">> ELSE <<"jianx">>

\* a plate document gave a record with the unit kuai although the unit of its
\* metadata is jian
C19_Witness ==
    /\ callRes # NoRes
    /\ callRes.kind = "tuple"
    /\ callRes.file_info[1].unit = <<"jianx">>
    /\ \E i \in 1..Len(callRes.table) :
          /\ callRes.table[i].type = <<"ban", "cai">>
          /\ callRes.table[i].unit = <<"kuai">>

\* C20: in a document of type ban cai, the record of a raw record whose spec
\* contains at least two integers has the raw thickness as spec1 and the first
\* two integers of the spec as spec2 and spec3, the smaller one in spec2
C20_PlateWidthLength ==
    callRes # NoRes /\ callRes.kind = "tuple"
      /\ callRes.file_info[1].product_type = <<"ban", "cai">> =>
        /\ SameRecords(callRes.table, FacadeTemplate)
        /\ \A i \in 1..Len(FacadeRaw) :
               LET dims == DigitRuns(FacadeRaw[i].spec)
                   rec  == FacadeTemplate[i]
               IN  Len(dims) >= 2 =>
                       /\ rec.type = <<"ban", "cai">>
                       /\ rec.spec1 = FacadeRaw[i].thickness
                       /\ {DigitsToNat(rec.spec2), DigitsToNat(rec.spec3)}
                            = {DigitsToNat(dims[1]), DigitsToNat(dims[2])}
                       /\ DigitsToNat(rec.spec2) <= DigitsToNat(rec.spec3)
                       /\ rec.spec2 = NatToDigits(DigitsToNat(rec.spec2))
                       /\ rec.spec3 = NatToDigits(DigitsToNat(rec.spec3))

\* the plate 1500*1250, written with the larger dimension first, came back
\* with spec2 = 1250 and spec3 = 1500
C20_Witness ==
    /\ callRes # NoRes
    /\ callRes.kind = "tuple"
    /\ \E i \in 1..Len(callRes.table) :
          /\ callRes.table[i].type = <<"ban", "cai">>
          /\ callRes.table[i].model = <<"1", "5", "0", "0", "*", "1", "2", "5", "0">>
          /\ callRes.table[i].spec2 = <<"1", "2", "5", "0">>
          /\ callRes.table[i].spec3 = <<"1", "5", "0", "0">>

----------------------------------------------------------------------------
(* Properties of the template records (specification SpecTemplate)         *)

\* the text before the first "*" of s, and the text s without the blanks at
\* its two ends
BeforeStar(s) ==
    LET k == CHOOSE i \in 1..Len(s) : s[i] = "*" /\ \A j \in 1..(i - 1) : s[j] # "*"
    IN  SubSeq(s, 1, k - 1)

Trimmed(s) ==
    LET ink == { i \in 1..Len(s) : s[i] \notin Whitespace }
    IN  IF ink = {} THEN <<>>
        ELSE SubSeq(s, CHOOSE i \in ink : \A j \in ink : i <= j,
                       CHOOSE i \in ink : \A j \in ink : j <= i)

\* the record is round-pipe-like: of type guan cai, or named with guan
\* (U+7BA1) but neither fang (U+65B9) nor ju (U+77E9) and not of type fang ju
\* guan
RoundPipeLike(rec) ==
    \/ rec.type = <<"guan", "cai">>
    \/ /\ \E i \in 1..Len(rec.name) : rec.name[i] = "guan"
       /\ \A i \in 1..Len(rec.name) : rec.name[i] \notin {"fang", "ju"}
       /\ rec.type # <<"fang", "ju", "guan">>

\* C21: the model of a round-pipe-like record whose spec contains "*" is the
\* trimmed text before the first "*" of the spec; the model of every other
\* record is the raw spec unchanged
C21_RoundPipeModel ==
    callRes # NoRes =>
        \A i \in 1..Len(callArg.source_data) :
            LET spec == callArg.source_data[i].spec
                rec  == callRes.val[i]
            IN  rec.model = IF RoundPipeLike(rec) /\ \E k \in 1..Len(spec) : spec[k] = "*"
                            THEN Trimmed(BeforeStar(spec))
                            ELSE spec

\* the pipe "D15*2" of a plate document named du xin guan came out with the
\* model "D15", and a plate "1500*1250" of a plate document kept its spec
C21_Witness ==
    /\ callRes # NoRes
    /\ Len(callRes.val) >= 2
    /\ callRes.val[1].type = <<"ban", "cai">>
    /\ callRes.val[1].name = <<"dux", "xin", "guan">>
    /\ callArg.source_data[1].spec = <<"D", "1", "5", "*", "2">>
    /\ callRes.val[1].model = <<"D", "1", "5">>
    /\ callArg.source_data[2].spec = <<"1", "5", "0", "0", "*", "1", "2", "5", "0">>
    /\ callRes.val[2].name = <<"dux", "xin", "guan", "ju", "guan">>
    /\ callRes.val[2].model = <<"1", "5", "0", "0", "*", "1", "2", "5", "0">>

----------------------------------------------------------------------------
(* Properties of extract_all_info_from_file (specification SpecInfo)       *)

\* the rows among the first 20 of df that contain a note keyword, from row i on
RECURSIVE NoteRowsOf(_, _)
NoteRowsOf(df, i) ==
    IF i > 20 \/ i > Len(df) THEN <<>>
    ELSE (IF \E k \in 1..Len(NoteKeywords) : Contains(RowStr(df[i]), NoteKeywords[k])
          THEN <<Strip(RowStr(df[i]))>> ELSE <<>>)
         \o NoteRowsOf(df, i + 1)

\* C22 (as claimed): the notes of the metadata are the texts of the rows,
\* among the first 20, that contain a note keyword, in row order and one entry
\* per such row: at most 20 entries, a row with several keywords once
C22_NotesOncePerRow ==
    callRes # NoRes /\ callRes.exc = "" =>
        /\ callRes.notes = NoteRowsOf(callArg.df, 1)
        /\ Len(callRes.notes) <= 20

----------------------------------------------------------------------------
(* Properties of the brand-triad, dual-spec, pipe and plate strategies     *)
(* (specification SpecStrategy)                                            *)

\* the rows of the grid from data_start_row on
GridDataRows == SubSeq(grid, matched.data_start_row + 1, Len(grid))

\* the rows before row r whose spec cell at column c contains "*"
StarRowsBefore(rows, r, c) ==
    { q \in 1..(r - 1) : notna(rows[q][c]) /\ Contains(Strip(rows[q][c].s), <<"*">>) }

\* the spec claimed for the block at column c of row r: none without a spec or
\* a truthy price; the cell itself when it contains "*"; else the size of the
\* nearest preceding "*" cell of the column, "*" and the bare thickness
ClaimedTriadSpec(rows, r, c) ==
    LET spec_val == IF notna(rows[r][c]) THEN Strip(rows[r][c].s) ELSE <<>>
        price    == rows[r][c + 1]
        before   == StarRowsBefore(rows, r, c)
        nearest  == CHOOSE q \in before : \A q2 \in before : q2 <= q
    IN  IF spec_val = <<>> \/ ~notna(price) \/ ~Truthy(price) THEN <<>>
        ELSE IF Contains(spec_val, <<"*">>) THEN <<spec_val>>
        ELSE IF before = {} THEN <<>>
        ELSE << Trimmed(BeforeStar(Strip(rows[nearest][c].s))) \o <<"*">> \o spec_val >>

RECURSIVE ClaimedTriadSpecs(_, _)
ClaimedTriadSpecs(rows, r) ==
    IF r > Len(rows) THEN <<>>
    ELSE ClaimedTriadSpec(rows, r, 1) \o ClaimedTriadSpec(rows, r, 4)
         \o ClaimedTriadSpecs(rows, r + 1)

\* C23 (as claimed): in ZhengdaGalvanizedStrategy.extract every spec cell with
\* "*" sets the size of its block anchor, and a later bare-thickness cell with
\* a truthy price gives a record with the spec <size of the nearest preceding
\* "*" cell of the anchor>*<thickness>; without such a cell in its own anchor
\* it gives no record
C23_TriadSizeInheritance ==
    ( /\ cls = "ZhengdaGalvanizedStrategy"
      /\ pc = "done"
      /\ matched.is_match
      /\ ret.exc = "" )
    => [i \in 1..Len(ret.records) |-> ret.records[i].spec]
         = ClaimedTriadSpecs(GridDataRows, 1)

\* the records C24 expects of the block at column c of row r: one per square
\* spec in effect, then one per rect spec in effect, when thickness and price
\* are not blank
ExpectedDualBlock(df, d, r, c) ==
    LET specs     == SpecsInEffect(df, d, r, c) \o SpecsInEffect(df, d, r, c + 1)
        thickness == Cell(Row(df, r), c + 2)
        price     == Cell(Row(df, r), c + 3)
    IN  IF notna(thickness) /\ notna(price)
        THEN [i \in 1..Len(specs) |->
                 RawRecord(specs[i], format_thickness(thickness.s), PriceOf(price))]
        ELSE <<>>

RECURSIVE ExpectedDualRow(_, _, _, _)
ExpectedDualRow(df, d, r, cols) ==
    IF cols = <<>> THEN <<>>
    ELSE ExpectedDualBlock(df, d, r, Head(cols)) \o ExpectedDualRow(df, d, r, Tail(cols))

RECURSIVE ExpectedDualRows(_, _, _)
ExpectedDualRows(df, d, r) ==
    IF r >= NRows(df) THEN <<>>
    ELSE ExpectedDualRow(df, d, r, Range(0, NCols(df) - 3, 4))
         \o ExpectedDualRows(df, d, r + 1)

\* C24: FourColumnStrategy.extract emits, for each row block with thickness
\* and price not blank, one record per square spec in effect followed by one
\* per rect spec in effect; the specs in effect of a column are the parsed
\* values of its cell if it holds any and else those of the nearest row above
\* whose cell in that same column held some; all share the row's thickness and
\* price
C24_DualSpecExtraction ==
    (pc = "done" /\ cls = "FourColumnStrategy" /\ matched.is_match /\ ret.exc = "")
        => ret.records
             = ExpectedDualRows(grid, matched.data_start_row, matched.data_start_row)

\* a first row with two square specs and no rect spec, then a row with a rect
\* spec only: the second row gave the two inherited square specs and its own
\* rect spec, five records in all
C24_Witness ==
    /\ pc = "done"
    /\ cls = "FourColumnStrategy"
    /\ grid = << HdrFour,
                 <<SpecMulti, NaN, ThickNum, PriceNum, NaN, NaN>>,
                 <<NaN, Txt(<<"6", "0", "*", "4", "0">>), ThickNum, PriceNum, NaN, NaN>> >>
    /\ [i \in 1..Len(ret.records) |-> ret.records[i].spec]
         = << <<"3", "0", "*", "3", "0">>, <<"6", "0", "*", "4", "0">>,
              <<"3", "0", "*", "3", "0">>, <<"6", "0", "*", "4", "0">>,
              <<"6", "0", "*", "4", "0">> >>

\* the cell holds a bore size: digits, possibly with a decimal point, before
\* cun (U+5BF8) or fen (U+5206)
HasBoreSize(cell) ==
    /\ notna(cell)
    /\ \E i \in 2..Len(cell.s) :
          /\ cell.s[i] \in {"cunx", "fen"}
          /\ \/ cell.s[i - 1] \in Digits
             \/ i > 2 /\ cell.s[i - 1] = "." /\ cell.s[i - 2] \in Digits

\* the cell parses as a number / as a number other than zero
ParsesAsNumber(cell) == notna(cell) /\ ParseFloat(cell.s).ok

ParsesAsNonZero(cell) ==
    /\ ParsesAsNumber(cell)
    /\ ~(ParseFloat(cell.s).kind = "fin" /\ ParseFloat(cell.s).dig = <<>>)

\* the data rows (counted from 1 in rows) that C25 says yield a record in the
\* block at column c (counted from 1)
PipeRecordRows(rows, c) ==
    { r \in 1..Len(rows) :
        /\ \E q \in 1..r : HasBoreSize(rows[q][c])
        /\ ParsesAsNumber(rows[r][c + 1])
        /\ ParsesAsNonZero(rows[r][c + 2]) \/ ParsesAsNonZero(rows[r][c + 3]) }

\* C25 (as claimed): HengwangPipeStrategy.extract, on a block whose header has
\* bi hou in its second column, returns one record for each data row for which
\* a bore-size spec is in effect at the block anchor, the wall thickness
\* parses as a number and the weighed or the measured price parses as a
\* non-zero number, and no record for any other row
C25_PipeRecordRule ==
    ( /\ cls = "HengwangPipeStrategy"
      /\ pc = "done"
      /\ matched.is_match
      /\ Contains(grid[matched.header_row + 1][2].s, KwWall) )
    => /\ ret.exc = ""
       /\ Len(ret.records) = Cardinality(PipeRecordRows(GridDataRows, 1))

----------------------------------------------------------------------------
(* Properties of YihengPlateStrategy (specification SpecPlate)             *)

\* row r of rows is the row of the product-name marker / holds dian hua
IsMarkerRow(row) == Contains(RowStr(row), KwLowTempPlate)

IsPhoneRow(row) == ~IsMarkerRow(row) /\ Contains(RowStr(row), KwPhone)

\* the text of a cell, <<>> for a blank one
CellText(cell) == IF notna(cell) THEN Strip(cell.s) ELSE <<>>

\* the merged material in effect for the group whose thickness is at column t
\* (counted from 1) in row r: that of the nearest row, from the last marker
\* row on, whose merged-material cell is not blank
MergedInEffect(rows, r, t) ==
    LET markers == { q \in 1..r : IsMarkerRow(rows[q]) }
        from    == IF markers = {} THEN 1
                   ELSE (CHOOSE q \in markers : \A x \in markers : x <= q) + 1
        holders == { q \in from..r : /\ ~IsPhoneRow(rows[q]) /\ ~RowIsEmpty(rows[q])
                                     /\ CellText(rows[q][t - 2]) # <<>> }
    IN  IF holders = {} THEN <<>>
        ELSE CellText(rows[CHOOSE q \in holders : \A x \in holders : x <= q][t - 2])

\* the material claimed for the group: the merged one if present, else the
\* specific-material cell of the row
ClaimedMaterial(rows, r, t) ==
    IF MergedInEffect(rows, r, t) # <<>> THEN MergedInEffect(rows, r, t)
    ELSE CellText(rows[r][t - 1])

\* the materials of the records claimed for the group at t of row r
ClaimedPlateGroup(rows, r, t) ==
    IF /\ ~IsMarkerRow(rows[r]) /\ ~IsPhoneRow(rows[r])
       /\ ParsesAsNumber(rows[r][t + 5])
       /\ ClaimedMaterial(rows, r, t) # <<>>
    THEN <<ClaimedMaterial(rows, r, t)>> ELSE <<>>

RECURSIVE ClaimedPlateMaterials(_, _, _)
ClaimedPlateMaterials(rows, r, ts) ==
    IF r > Len(rows) THEN <<>>
    ELSE ClaimedPlateGroup(rows, r, ts[1]) \o ClaimedPlateGroup(rows, r, ts[2])
         \o ClaimedPlateMaterials(rows, r + 1, ts)

\* C26 (as claimed): YihengPlateStrategy.extract returns one record for each
\* row group whose price parses as a number and whose material is not empty,
\* and none for a row with dian hua or the marker row; the material is the
\* merged material of the group, inherited over blank cells and cleared by the
\* marker row di wen rong qi ban, else the specific material of the row; the
\* records after a marker row carry its product name
C26_PlateExtraction ==
    (cls = "YihengPlateStrategy" /\ pc = "done" /\ matched.is_match)
    => /\ ret.exc = ""
       /\ [i \in 1..Len(ret.records) |-> ret.records[i].material]
            = ClaimedPlateMaterials(GridDataRows, 1, <<3, 12>>)
       /\ \A i \in 1..Len(ret.records) :
              (\E q \in 1..Len(GridDataRows) : IsMarkerRow(GridDataRows[q]))
                  => ret.records[i].name = KwLowTempPlate

----------------------------------------------------------------------------
(* Conservation of the records through process_file (specification         *)
(* SpecFacade)                                                             *)

\* process_file reaches the extraction and the extraction returns its records
ExtractionYields ==
    /\ read_excel(callArg.content).exc = ""
    /\ extract_all_info_from_file(callArg.content.sheet, callArg.filename).exc = ""
    /\ extract_price_data(callArg.content.sheet).exc = ""

\* C27: when the extraction yields n raw records, process_file returns
\* exactly n canonical records, one per raw record: the table returned holds
\* the records create_template_dataframe made of the raw records, each as
\* often, none altered, and no record of it has a helper column p_rank,
\* m_rank or s1_val
C27_RecordConservation ==
    callRes # NoRes /\ ExtractionYields =>
        /\ callRes.exc = ""
        /\ callRes.nrows = Len(FacadeRaw)
        /\ Len(callRes.table) = Len(FacadeRaw)
        /\ FacadeRaw # <<>> =>
               /\ callRes.kind = "tuple"
               /\ SameRecords(callRes.table, FacadeTemplate)
               /\ \A p \in 1..Len(callRes.table) :
                      DOMAIN callRes.table[p] \cap HelperColumns = {}

\* three raw records came back as three canonical records in another order
C27_Witness ==
    /\ callRes # NoRes
    /\ ExtractionYields
    /\ Len(FacadeRaw) = 3
    /\ callRes.kind = "tuple"
    /\ Len(callRes.table) = 3
    /\ callRes.table # FacadeTemplate
    /\ \A p \in 1..3 : DOMAIN callRes.table[p] = DOMAIN FacadeTemplate[p]

----------------------------------------------------------------------------
(* Bookkeeping of process_multiple_files (specification SpecBatch)         *)

\* the names of the files of the list whose result table is not empty
NamesWithRecords ==
    { files[i].name :
        i \in { j \in 1..Len(files) :
                 process_file(files[j].content, files[j].name, manufacturer).nrows > 0 } }

\* C28 (as claimed): when process_multiple_files has ended, results and
\* file_infos have the same keys, which are exactly the names of the files
\* whose result table is not empty, and every file of the list has been
\* processed once, in list order, whatever became of the files before it
C28_BatchBookkeeping ==
    pc \in {"done", "raised"} =>
        /\ DOMAIN results = DOMAIN file_infos
        /\ DOMAIN results = NamesWithRecords
        /\ Len(outs) = Len(files)
        /\ \A i \in 1..Len(outs) :
               outs[i] = process_file(files[i].content, files[i].name, manufacturer)

----------------------------------------------------------------------------
(* Properties of the wizard of app.py (specification SpecApp)              *)

\* the tables of a results dictionary are all non-empty and there is one
HasRecords(res) == res # EmptyDict /\ \A f \in DOMAIN res : res[f] # <<>>

\* the step is 1, 2 or 3, and on the steps 2 and 3 the session has results
StepInvariant ==
    /\ session_state.step \in {1, 2, 3}
    /\ session_state.step \in {2, 3} => session_state.results # EmptyDict

\* how a script run may change the step, and when process_multiple_files is
\* called (outs' holds the outcome of a call made in the run)
StepTransition ==
    /\ (session_state'.step = 2 /\ session_state.step # 2) =>
           /\ session_state.step = 1
           /\ outs' # <<>>
           /\ outs'[1].exc = ""
           /\ HasRecords(outs'[1].results)
           /\ session_state'.results = outs'[1].results
    /\ (session_state'.step = 3 /\ session_state.step # 3) =>
           /\ session_state.step = 2
           /\ session_state.results # EmptyDict
           /\ session_state'.results = session_state.results
    /\ outs' # <<>> =>
           /\ session_state.step = 1
           /\ Len(files) \in 1..5
           /\ manufacturer # ManufacturerPlaceholder

\* C29: over any sequence of user actions the session step is always 1, 2 or
\* 3; step 2 is entered only from step 1 after an extraction that produced
\* at least one non-empty result, and step 3 only from step 2 with non-empty
\* results, so the session results are non-empty on the steps 2 and 3; an
\* extraction starts only when between 1 and 5 files are uploaded and a
\* manufacturer other than the placeholder is selected
C29_WizardSteps == []StepInvariant /\ [][StepTransition]_vars

\* the download page was reached through the confirm button, with the tables
\* of two files in the session
C29_Witness ==
    /\ session_state.step = 3
    /\ clicked = "confirm"
    /\ Cardinality(DOMAIN session_state.results) = 2
    /\ HasRecords(session_state.results)

\* C30 (as claimed): in every state of the session file_infos and results
\* have the same keys; an action that empties results (reset, return to
\* upload, start new task) empties file_infos too
C30_SessionConsistency ==
    DOMAIN session_state.file_infos = DOMAIN session_state.results

============================================================================
